---- MODULE Spec2Model ----
(***************************************************************************)
(* The PostgreSQL vector store of package ai (PostgresProvider) and its    *)
(* validator (VectorValidator), as a state machine over the database the   *)
(* provider writes: the vector_collections metadata table and one table    *)
(* per collection.  Every handler is split at its backend round trips, so  *)
(* that a connection fault can be injected at each of them and so that two *)
(* callers can interleave.                                                 *)
(***************************************************************************)
EXTENDS Integers, Sequences, FiniteSets, TLC

(***************************************************************************)
(* Bounds of the model.                                                    *)
(***************************************************************************)
MaxDimension == 2
MaxClock == 2
MaxBatch == 2

(***************************************************************************)
(* Error taxonomy (types.go).                                              *)
(***************************************************************************)
ErrCodeNotFound == 404
ErrCodeInvalidDimension == 400
ErrCodeInvalidConfig == 401
ErrCodeCollectionExists == 402
ErrCodeCollectionNotFound == 403
ErrCodeOperationFailed == 501

\* A Go error value: nil, a *VectorError with its code and wrapped cause, or
\* any other error (fmt.Errorf wrapping, or the raw driver error).
\* cause: "none", "conn" (the connection or driver failed), or the SQLSTATE
\* class the server answered with.
Nil == [kind |-> "nil", code |-> 0, cause |-> "none"]
VectorError(code, cause) == [kind |-> "VectorError", code |-> code, cause |-> cause]
PlainError(cause) == [kind |-> "error", code |-> 0, cause |-> cause]

ErrDocumentNotFound == VectorError(ErrCodeNotFound, "none")
ErrCollectionNotFound == VectorError(ErrCodeCollectionNotFound, "none")
ErrCollectionExists == VectorError(ErrCodeCollectionExists, "none")
ErrInvalidDimension == VectorError(ErrCodeInvalidDimension, "none")

(***************************************************************************)
(* Names.  A name is a sequence of characters, so that the validator's     *)
(* patterns and the server's reading of an unquoted identifier are         *)
(* computed, not assumed.                                                  *)
(***************************************************************************)
UpperLetters == {"D"}
LowerLetters == {"a", "b", "c", "d", "g", "l", "o", "s", "t"}
Letters == UpperLetters \cup LowerLetters
Digits == {"1"}

NameDocsUpper == <<"D", "o", "c", "s">>
NameDocs == <<"d", "o", "c", "s">>
NameHyphen == <<"a", "-", "b">>
NameShort == <<"l", "o">>
Names == {NameDocsUpper, NameDocs, NameHyphen, NameShort}

FieldCat == <<"c", "a", "t">>
FieldBad == <<"c", "-", "t">>

\* validCollectionName: ^[a-zA-Z][a-zA-Z0-9_-]{2,63}$
validCollectionName(n) ==
    /\ Len(n) >= 3
    /\ Len(n) <= 64
    /\ n[1] \in Letters
    /\ \A i \in 2..Len(n) : n[i] \in Letters \cup Digits \cup {"_", "-"}

\* validFieldName: ^[a-zA-Z][a-zA-Z0-9_]{2,63}$
validFieldName(n) ==
    /\ Len(n) >= 3
    /\ Len(n) <= 64
    /\ n[1] \in Letters
    /\ \A i \in 2..Len(n) : n[i] \in Letters \cup Digits \cup {"_"}

(***************************************************************************)
(* tableName := fmt.Sprintf("%s.%s", s.schema, name) is written into the   *)
(* statement text without quotes.  The server reads an unquoted identifier *)
(* case-insensitively (folded to lower case), and the text does not parse  *)
(* when the name holds a character an identifier cannot hold.              *)
(***************************************************************************)
FoldChar(c) == IF c = "D" THEN "d" ELSE c
tableName(name) == [i \in DOMAIN name |-> FoldChar(name[i])]
IdentParses(name) ==
    /\ Len(name) >= 1
    /\ name[1] \in Letters \cup {"_"}
    /\ \A i \in 2..Len(name) : name[i] \in Letters \cup Digits \cup {"_"}
Idents == {tableName(n) : n \in {m \in Names : IdentParses(m)}}

(***************************************************************************)
(* Collection configurations.                                              *)
(***************************************************************************)
NoFields == <<>>
FieldTypes == {"string", "int", "float", "bool", "datetime", "array"}
VectorFieldConfig(t, req) == [type |-> t, required |-> req, indexed |-> FALSE]
CatRequired == (FieldCat :> VectorFieldConfig("string", TRUE))
CatBadType == (FieldCat :> VectorFieldConfig("text", FALSE))
CatBadName == (FieldBad :> VectorFieldConfig("string", FALSE))

NilConfig == [isNil |-> TRUE]
VectorCollectionConfig(n, d, it, dt, cf) ==
    [isNil |-> FALSE, name |-> n, dimension |-> d, indexType |-> it,
     distanceType |-> dt, customFields |-> cf]

\* The configurations callers pass to CreateCollection.
Configs ==
    { NilConfig,
      VectorCollectionConfig(NameDocs, 1, "hnsw", "cosine", NoFields),
      VectorCollectionConfig(NameDocs, MaxDimension, "ivf_flat", "euclidean", CatRequired),
      VectorCollectionConfig(NameDocsUpper, MaxDimension, "", "dot_product", NoFields),
      VectorCollectionConfig(NameHyphen, 1, "hnsw", "cosine", NoFields),
      VectorCollectionConfig(NameShort, 1, "hnsw", "cosine", NoFields),
      VectorCollectionConfig(NameDocs, 0, "hnsw", "cosine", NoFields),
      VectorCollectionConfig(NameDocs, MaxDimension + 1, "hnsw", "cosine", NoFields),
      VectorCollectionConfig(NameDocs, 1, "flat", "cosine", CatBadType),
      VectorCollectionConfig(NameDocs, 1, "flat", "cosine", CatBadName) }

(***************************************************************************)
(* VectorValidator (vector_validation.go).                                 *)
(***************************************************************************)
validateField(name, field) ==
    IF ~validFieldName(name) THEN VectorError(ErrCodeInvalidConfig, "none")
    ELSE IF field.type \notin FieldTypes THEN VectorError(ErrCodeInvalidConfig, "none")
    ELSE Nil

\* The dimension checked before the name.
ValidateCollection_DimensionFirst(config) ==
    IF config.isNil THEN VectorError(ErrCodeInvalidConfig, "none")
    ELSE IF config.dimension <= 0 \/ config.dimension > MaxDimension
         THEN VectorError(ErrCodeInvalidDimension, "none")
    ELSE IF ~validCollectionName(config.name) THEN VectorError(ErrCodeInvalidConfig, "none")
    ELSE IF \E f \in DOMAIN config.customFields :
                validateField(f, config.customFields[f]) # Nil
         THEN VectorError(ErrCodeInvalidConfig, "none")
    ELSE Nil

ValidateCollection(config) ==
    IF config.isNil THEN VectorError(ErrCodeInvalidConfig, "none")
    ELSE IF ~validCollectionName(config.name) THEN VectorError(ErrCodeInvalidConfig, "none")
    ELSE IF config.dimension <= 0 \/ config.dimension > MaxDimension
         THEN VectorError(ErrCodeInvalidDimension, "none")
    ELSE IF \E f \in DOMAIN config.customFields :
                validateField(f, config.customFields[f]) # Nil
         THEN LET f == CHOOSE g \in DOMAIN config.customFields :
                          validateField(g, config.customFields[g]) # Nil
              IN validateField(f, config.customFields[f])
    ELSE Nil

\* int taking every integer type.
validateFieldType_AnyInteger(value, expectedType) ==
    CASE expectedType = "string" -> value.gotype = "string"
      [] expectedType = "int" -> value.gotype \in {"int", "int8", "int16", "int32", "int64",
                                                   "uint", "uint8", "uint32"}
      [] expectedType = "float" -> value.gotype \in {"float32", "float64"}
      [] expectedType = "bool" -> value.gotype = "bool"
      [] expectedType = "datetime" -> value.gotype = "time.Time"
      [] expectedType = "array" -> value.gotype = "[]interface{}"
      [] OTHER -> TRUE

\* value.(type) against the declared type of the field
validateFieldType(value, expectedType) ==
    CASE expectedType = "string" -> value.gotype = "string"
      [] expectedType = "int" -> value.gotype \in {"int", "int32", "int64"}
      [] expectedType = "float" -> value.gotype \in {"float32", "float64"}
      [] expectedType = "bool" -> value.gotype = "bool"
      [] expectedType = "datetime" -> value.gotype = "time.Time"
      [] expectedType = "array" -> value.gotype = "[]interface{}"
      [] OTHER -> TRUE

validateCustomFields(metadata, schema) ==
    IF \E f \in DOMAIN schema :
          \/ schema[f].required /\ f \notin DOMAIN metadata
          \/ f \in DOMAIN metadata /\ ~validateFieldType(metadata[f], schema[f].type)
    THEN VectorError(ErrCodeInvalidConfig, "none")
    ELSE Nil

\* The zero time.Time, and the stamping of unset timestamps.
ZeroTime == 0
Stamp(doc, now) ==
    [doc EXCEPT !.createdAt = IF @ = ZeroTime THEN now ELSE @,
                !.updatedAt = IF @ = ZeroTime THEN now ELSE @]

\* The length of the vector not compared with the dimension.
ValidateDocument_NoDimensionCheck(doc, config, now) ==
    IF doc.isNil THEN [err |-> VectorError(ErrCodeInvalidConfig, "none"), doc |-> doc]
    ELSE IF doc.id = "" THEN [err |-> VectorError(ErrCodeInvalidConfig, "none"), doc |-> doc]
    ELSE [err |-> validateCustomFields(doc.metadata, config.customFields),
          doc |-> Stamp(doc, now)]

\* ValidateDocument returns the error and the caller's document as the call
\* leaves it: the timestamps are stamped after the dimension check and before
\* the custom fields are checked.
ValidateDocument(doc, config, now) ==
    IF doc.isNil THEN [err |-> VectorError(ErrCodeInvalidConfig, "none"), doc |-> doc]
    ELSE IF doc.id = "" THEN [err |-> VectorError(ErrCodeInvalidConfig, "none"), doc |-> doc]
    ELSE IF Len(doc.vector) # config.dimension
         THEN [err |-> VectorError(ErrCodeInvalidDimension, "none"), doc |-> doc]
    ELSE [err |-> validateCustomFields(doc.metadata, config.customFields),
          doc |-> Stamp(doc, now)]

(***************************************************************************)
(* Documents.                                                              *)
(***************************************************************************)
DocIDs == {"", "d1", "d2"}
GoValue(t, v) == [gotype |-> t, v |-> v]
NoMetadata == <<>>
CatTech == (FieldCat :> GoValue("string", "tech"))
CatNews == (FieldCat :> GoValue("string", "news"))
CatInt == (FieldCat :> GoValue("int", "123"))
CatText == (FieldCat :> GoValue("string", "123"))

NilDoc == [isNil |-> TRUE]
VectorDocument(id, vec, content, md, created, updated) ==
    [isNil |-> FALSE, id |-> id, vector |-> vec, content |-> content,
     metadata |-> md, createdAt |-> created, updatedAt |-> updated]

\* The documents callers pass to UpsertDocument and UpsertDocuments.
BatchDocuments ==
    { VectorDocument("d1", <<1>>, "x", NoMetadata, ZeroTime, ZeroTime),
      VectorDocument("d1", <<0>>, "y", CatTech, 1, 1),
      VectorDocument("d2", <<0, 1>>, "x", CatInt, ZeroTime, ZeroTime),
      VectorDocument("d2", <<1>>, "y", CatNews, ZeroTime, ZeroTime) }
Documents ==
    BatchDocuments \cup
    { NilDoc,
      VectorDocument("", <<1>>, "x", NoMetadata, ZeroTime, ZeroTime),
      VectorDocument("d1", <<1, 0>>, "y", CatTech, ZeroTime, ZeroTime),
      VectorDocument("d2", <<1, 1>>, "x", NoMetadata, 1, ZeroTime) }

RECURSIVE SeqsUpTo(_, _)
SeqsUpTo(S, n) ==
    IF n = 0 THEN {<<>>}
    ELSE LET shorter == SeqsUpTo(S, n - 1)
         IN shorter \cup {Append(s, x) : s \in {t \in shorter : Len(t) = n - 1}, x \in S}
Batches == SeqsUpTo(BatchDocuments, MaxBatch)

\* json.Marshal of a metadata value: the JSON kind the Go type is written as.
JSONKind(gotype) ==
    CASE gotype = "string" -> "string"
      [] gotype = "time.Time" -> "string"
      [] gotype = "bool" -> "bool"
      [] gotype = "[]interface{}" -> "array"
      [] OTHER -> "number"
jsonMarshal(md) == [f \in DOMAIN md |-> [json |-> JSONKind(md[f].gotype), v |-> md[f].v]]

(***************************************************************************)
(* The database: the committed rows of vector_collections, the committed   *)
(* collection tables, and for every caller its open transaction with the   *)
(* rows and tables that transaction has written and not yet committed.     *)
(***************************************************************************)
Procs == {1, 2}

VARIABLES meta, tables, tx, pc, call, result, changed, clock, server, provider, storage
vars == <<meta, tables, tx, pc, call, result, changed, clock, server, provider, storage>>

\* The server besides the collections: whether the vector extension is
\* installed, the schemas that exist and those that hold a vector_collections
\* table.  The provider and the facade are the structs the constructors
\* return; meta and tables are the rows and tables of the provider's schema.
DefaultSchema == "public"
Schemas == {"public", "vectors"}
NoProvider == [exists |-> FALSE]
\* initialized counts the Initialize calls that succeeded on the provider: none, one, more
PostgresProvider(schema) == [exists |-> TRUE, schema |-> schema, initialized |-> 0]
NoStorage == [exists |-> FALSE]
VectorStorage == [exists |-> TRUE]

NoRow == [exists |-> FALSE]
NoTable == [exists |-> FALSE]
NoDoc == [exists |-> FALSE]
Untouched == [untouched |-> TRUE]
NoTx == [open |-> FALSE]
BeginTx == [open |-> TRUE, meta |-> [n \in Names |-> Untouched],
            tables |-> [t \in Idents |-> Untouched]]

\* What a statement of caller p sees: its own uncommitted writes over the
\* committed data.
ViewMeta(p, n) ==
    IF tx[p].open /\ tx[p].meta[n] # Untouched THEN tx[p].meta[n] ELSE meta[n]
ViewTable(p, t) ==
    IF tx[p].open /\ tx[p].tables[t] # Untouched THEN tx[p].tables[t] ELSE tables[t]

\* Another open transaction holds an uncommitted write of the row or table.
MetaLocked(p, n) == \E q \in Procs \ {p} : tx[q].open /\ tx[q].meta[n] # Untouched
TableLocked(p, t) == \E q \in Procs \ {p} : tx[q].open /\ tx[q].tables[t] # Untouched

\* COMMIT: the writes of the transaction become the committed data.
CommitMeta(p) == [n \in Names |-> ViewMeta(p, n)]
CommitTables(p) == [t \in Idents |-> ViewTable(p, t)]

\* The collections that are registered, and the documents of a collection:
\* the rows of the table its statements name.
Registered(n) == meta[n].exists
HasTable(n) == IdentParses(n) /\ tables[tableName(n)].exists
StoredDocs(n) ==
    IF HasTable(n)
    THEN {tables[tableName(n)].rows[i] : i \in {j \in DocIDs : tables[tableName(n)].rows[j].exists}}
    ELSE {}

Init ==
    /\ meta = [n \in Names |-> NoRow]
    /\ tables = [t \in Idents |-> NoTable]
    /\ tx = [p \in Procs |-> NoTx]
    /\ pc = [p \in Procs |-> "idle"]
    /\ call = [p \in Procs |-> [op |-> "none"]]
    /\ result = [p \in Procs |-> [err |-> Nil, out |-> <<>>]]
    /\ changed = [p \in Procs |-> FALSE]
    /\ clock = 1
    /\ server = [extension |-> TRUE, schemas |-> {DefaultSchema}, catalogs |-> {DefaultSchema}]
    /\ provider = PostgresProvider(DefaultSchema)
    /\ storage = NoStorage

\* time.Now() moves on.
Tick ==
    /\ clock < MaxClock
    /\ clock' = clock + 1
    /\ UNCHANGED <<meta, tables, tx, pc, call, result, changed, server, provider, storage>>

\* History: the committed data differ from what they were when the call of p began.
Track(p, fresh) ==
    changed' = [changed EXCEPT ![p] = (IF fresh THEN FALSE ELSE @)
                                         \/ meta' # meta \/ tables' # tables]

\* return err, out: the caller holds the result of the call
Return(p, err, out) ==
    /\ pc' = [pc EXCEPT ![p] = "returned"]
    /\ result' = [result EXCEPT ![p] = [err |-> err, out |-> out]]

\* The deferred Rollback left out: the return leaves the transaction as it is.
DeferredRollback_Missing(p) == tx

\* defer tx.Rollback(): every return after BeginTx ends the transaction; after
\* a successful Commit it has nothing left to undo.
DeferredRollback(p) == [tx EXCEPT ![p] = NoTx]

\* The deferred call commits where it should roll back.
ReturnTx_Commits(p, err) ==
    /\ Return(p, err, <<>>)
    /\ meta' = CommitMeta(p)
    /\ tables' = CommitTables(p)
    /\ tx' = [tx EXCEPT ![p] = NoTx]

\* return err from a handler that has begun a transaction
ReturnTx(p, err) ==
    /\ Return(p, err, <<>>)
    /\ tx' = DeferredRollback(p)
    /\ UNCHANGED <<meta, tables>>

\* tx.Commit() succeeded: the transaction has ended, and the deferred
\* Rollback finds nothing to undo
Commit(p) ==
    /\ meta' = CommitMeta(p)
    /\ tables' = CommitTables(p)
    /\ tx' = [tx EXCEPT ![p] = NoTx]
    /\ Return(p, Nil, <<>>)

\* The caller has taken the result and is free to make its next call.
Returned(p) ==
    /\ pc[p] = "returned"
    /\ pc' = [pc EXCEPT ![p] = "idle"]
    /\ call' = [call EXCEPT ![p] = [op |-> "none"]]
    /\ result' = [result EXCEPT ![p] = [err |-> Nil, out |-> <<>>]]
    /\ changed' = [changed EXCEPT ![p] = FALSE]
    /\ UNCHANGED <<meta, tables, tx, clock, server, provider, storage>>

(***************************************************************************)
(* CreateCollection (chunking.go 243-266) with createCollectionTable       *)
(* (595-625), buildIndexQuery (769-790) and storeCollectionMetadata        *)
(* (629-666).                                                               *)
(***************************************************************************)
\* hnsw not recognised: every index type falls back to ivfflat.
buildIndexQuery_OnlyIvfflat(config) ==
    [ops |-> CASE config.distanceType = "cosine" -> "vector_cosine_ops"
               [] config.distanceType = "euclidean" -> "vector_l2_ops"
               [] config.distanceType = "dot_product" -> "vector_ip_ops"
               [] OTHER -> "vector_cosine_ops",
     method |-> "ivfflat"]

buildIndexQuery(config) ==
    [ops |-> CASE config.distanceType = "cosine" -> "vector_cosine_ops"
               [] config.distanceType = "euclidean" -> "vector_l2_ops"
               [] config.distanceType = "dot_product" -> "vector_ip_ops"
               [] OTHER -> "vector_cosine_ops",
     method |-> CASE config.indexType = "ivf_flat" -> "ivfflat"
                  [] config.indexType = "hnsw" -> "hnsw"
                  [] OTHER -> "ivfflat"]

\* CREATE TABLE ... (id TEXT PRIMARY KEY, vector vector(dimension), ...)
NewTable(dimension) ==
    [exists |-> TRUE, dim |-> dimension, indexes |-> <<>>,
     rows |-> [i \in DocIDs |-> NoDoc]]

\* the row storeCollectionMetadata inserts
MetadataRow(config) ==
    [exists |-> TRUE, dimension |-> config.dimension, indexType |-> config.indexType,
     distanceType |-> config.distanceType, customFields |-> config.customFields]

\* ValidateCollection, then BeginTx.  registered records whether the name had
\* its metadata row when the call began.
CreateCollection(p, config) ==
    /\ pc[p] = "idle"
    /\ call' = [call EXCEPT ![p] =
                    [op |-> "CreateCollection", config |-> config,
                     registered |-> IF config.isNil THEN FALSE ELSE meta[config.name].exists]]
    /\ UNCHANGED <<meta, tables, clock, server, provider, storage>>
    /\ IF ValidateCollection(config) # Nil
       THEN /\ Return(p, ValidateCollection(config), <<>>)
            /\ UNCHANGED tx
       ELSE \/ /\ Return(p, PlainError("conn"), <<>>)
               /\ UNCHANGED tx
            \/ /\ tx' = [tx EXCEPT ![p] = BeginTx]
               /\ pc' = [pc EXCEPT ![p] = "createTable"]
               /\ UNCHANGED result
    /\ Track(p, TRUE)

\* CREATE TABLE IF NOT EXISTS: a table the statement can see is left as it
\* is; a table another transaction has created and not yet committed cannot
\* be seen, and the statement waits for that transaction.
createCollectionTable(p) ==
    /\ pc[p] = "createTable"
    /\ UNCHANGED <<call, clock, server, provider, storage>>
    /\ LET config == call[p].config
           t == tableName(config.name)
       IN IF ~IdentParses(config.name)
          THEN ReturnTx(p, VectorError(ErrCodeOperationFailed, "42601"))
          ELSE \/ ReturnTx(p, VectorError(ErrCodeOperationFailed, "conn"))
               \/ /\ ViewTable(p, t).exists
                  /\ pc' = [pc EXCEPT ![p] = "createIndex"]
                  /\ UNCHANGED <<meta, tables, tx, result>>
               \/ /\ ~ViewTable(p, t).exists
                  /\ ~TableLocked(p, t)
                  /\ tx' = [tx EXCEPT ![p].tables[t] = NewTable(config.dimension)]
                  /\ pc' = [pc EXCEPT ![p] = "createIndex"]
                  /\ UNCHANGED <<meta, tables, result>>
               \/ /\ ~ViewTable(p, t).exists
                  /\ TableLocked(p, t)
                  /\ pc' = [pc EXCEPT ![p] = "createTableWait"]
                  /\ UNCHANGED <<meta, tables, tx, result>>
    /\ Track(p, FALSE)

\* The waiting CREATE TABLE goes on when the other transaction has ended: if
\* that one committed the table, the catalog rejects the second entry
\* (duplicate key, 23505); if it rolled back, the table is created.
createCollectionTableWait(p) ==
    /\ pc[p] = "createTableWait"
    /\ UNCHANGED <<call, clock, server, provider, storage>>
    /\ LET config == call[p].config
           t == tableName(config.name)
       IN /\ ~TableLocked(p, t)
          /\ IF tables[t].exists
             THEN ReturnTx(p, VectorError(ErrCodeOperationFailed, "23505"))
             ELSE /\ tx' = [tx EXCEPT ![p].tables[t] = NewTable(config.dimension)]
                  /\ pc' = [pc EXCEPT ![p] = "createIndex"]
                  /\ UNCHANGED <<meta, tables, result>>
    /\ Track(p, FALSE)

\* CREATE INDEX ON table USING method (vector ops)
createCollectionIndex(p) ==
    /\ pc[p] = "createIndex"
    /\ UNCHANGED <<call, clock, server, provider, storage>>
    /\ LET config == call[p].config
           t == tableName(config.name)
       IN \/ ReturnTx(p, VectorError(ErrCodeOperationFailed, "conn"))
          \/ /\ ~TableLocked(p, t)
             /\ tx' = [tx EXCEPT ![p].tables[t] =
                          [ViewTable(p, t) EXCEPT !.indexes = Append(@, buildIndexQuery(config))]]
             /\ pc' = [pc EXCEPT ![p] = "storeMetadata"]
             /\ UNCHANGED <<meta, tables, result>>
    /\ Track(p, FALSE)

\* The INSERT written as an upsert: a row of the same name is overwritten.
storeCollectionMetadata_Overwrites(p) ==
    /\ pc[p] = "storeMetadata"
    /\ UNCHANGED <<call, clock, server, provider, storage>>
    /\ LET config == call[p].config
       IN \/ ReturnTx(p, VectorError(ErrCodeOperationFailed, "conn"))
          \/ /\ ~MetaLocked(p, config.name)
             /\ tx' = [tx EXCEPT ![p].meta[config.name] = MetadataRow(config)]
             /\ pc' = [pc EXCEPT ![p] = "createCommit"]
             /\ UNCHANGED <<meta, tables, result>>
    /\ Track(p, FALSE)

\* INSERT INTO vector_collections: name is the primary key, and a second row
\* of the same name is a unique violation (23505).
storeCollectionMetadata(p) ==
    /\ pc[p] = "storeMetadata"
    /\ UNCHANGED <<call, clock, server, provider, storage>>
    /\ LET config == call[p].config
       IN \/ ReturnTx(p, VectorError(ErrCodeOperationFailed, "conn"))
          \/ /\ ~MetaLocked(p, config.name)
             /\ IF ViewMeta(p, config.name).exists
                THEN ReturnTx(p, ErrCollectionExists)
                ELSE /\ tx' = [tx EXCEPT ![p].meta[config.name] = MetadataRow(config)]
                     /\ pc' = [pc EXCEPT ![p] = "createCommit"]
                     /\ UNCHANGED <<meta, tables, result>>
    /\ Track(p, FALSE)

\* return tx.Commit(): the error of a failed commit is returned as it is,
\* and nothing of the transaction is kept.
CreateCollectionCommit(p) ==
    /\ pc[p] = "createCommit"
    /\ UNCHANGED <<call, clock, server, provider, storage>>
    /\ \/ ReturnTx(p, PlainError("conn"))
       \/ Commit(p)
    /\ Track(p, FALSE)

(***************************************************************************)
(* DeleteCollection (269-292) with deleteCollectionMetadata (668-693).     *)
(***************************************************************************)
DeleteCollection(p, name) ==
    /\ pc[p] = "idle"
    /\ call' = [call EXCEPT ![p] = [op |-> "DeleteCollection", name |-> name,
                                    registered |-> meta[name].exists]]
    /\ UNCHANGED <<meta, tables, clock, server, provider, storage>>
    /\ \/ /\ Return(p, PlainError("conn"), <<>>)
          /\ UNCHANGED tx
       \/ /\ tx' = [tx EXCEPT ![p] = BeginTx]
          /\ pc' = [pc EXCEPT ![p] = "dropTable"]
          /\ UNCHANGED result
    /\ Track(p, TRUE)

\* DROP TABLE IF EXISTS table
DeleteCollectionDrop(p) ==
    /\ pc[p] = "dropTable"
    /\ UNCHANGED <<call, clock, server, provider, storage>>
    /\ LET name == call[p].name
           t == tableName(name)
       IN IF ~IdentParses(name)
          THEN ReturnTx(p, VectorError(ErrCodeOperationFailed, "42601"))
          ELSE \/ ReturnTx(p, VectorError(ErrCodeOperationFailed, "conn"))
               \/ /\ ~TableLocked(p, t)
                  /\ tx' = [tx EXCEPT ![p].tables[t] =
                               IF ViewTable(p, t).exists THEN NoTable ELSE @]
                  /\ pc' = [pc EXCEPT ![p] = "deleteMetadata"]
                  /\ UNCHANGED <<meta, tables, result>>
    /\ Track(p, FALSE)

\* DELETE FROM vector_collections WHERE name = $1 AND schema_name = $2, and
\* the count of the rows it removed
deleteCollectionMetadata(p) ==
    /\ pc[p] = "deleteMetadata"
    /\ UNCHANGED <<call, clock, server, provider, storage>>
    /\ LET name == call[p].name
       IN \/ ReturnTx(p, VectorError(ErrCodeOperationFailed, "conn"))
          \/ /\ ~MetaLocked(p, name)
             /\ IF ~ViewMeta(p, name).exists
                THEN ReturnTx(p, ErrCollectionNotFound)
                ELSE /\ tx' = [tx EXCEPT ![p].meta[name] = NoRow]
                     /\ pc' = [pc EXCEPT ![p] = "deleteCommit"]
                     /\ UNCHANGED <<meta, tables, result>>
    /\ Track(p, FALSE)

DeleteCollectionCommit(p) ==
    /\ pc[p] = "deleteCommit"
    /\ UNCHANGED <<call, clock, server, provider, storage>>
    /\ \/ ReturnTx(p, PlainError("conn"))
       \/ Commit(p)
    /\ Track(p, FALSE)

\* The missing row not reported: a zero configuration is returned instead.
getCollectionConfig_NoRowIgnored(name) ==
    IF ~meta[name].exists
    THEN [err |-> Nil, config |-> VectorCollectionConfig(name, 0, "", "", NoFields)]
    ELSE [err |-> Nil,
          config |-> VectorCollectionConfig(name, meta[name].dimension, meta[name].indexType,
                                            meta[name].distanceType, meta[name].customFields)]

(***************************************************************************)
(* getCollectionConfig (695-732): the row of the collection, read outside  *)
(* any transaction.                                                        *)
(***************************************************************************)
getCollectionConfig(name) ==
    IF ~meta[name].exists
    THEN [err |-> ErrCollectionNotFound, config |-> NilConfig]
    ELSE [err |-> Nil,
          config |-> VectorCollectionConfig(name, meta[name].dimension, meta[name].indexType,
                                            meta[name].distanceType, meta[name].customFields)]

\* The conflict clause also setting created_at = EXCLUDED.created_at.
InsertOnConflict_SetsCreatedAt(table, doc, now) ==
    [table EXCEPT !.rows[doc.id] =
        [exists |-> TRUE, vector |-> doc.vector, content |-> doc.content,
         metadata |-> jsonMarshal(doc.metadata), created_at |-> doc.createdAt,
         updated_at |-> now]]

(***************************************************************************)
(* INSERT INTO table (id, vector, content, metadata, created_at,           *)
(* updated_at) VALUES (...) ON CONFLICT (id) DO UPDATE SET vector, content,*)
(* metadata, updated_at (336-344 and 794-802).  The statement is sent      *)
(* doc.CreatedAt and time.Now().                                           *)
(***************************************************************************)
InsertOnConflict(table, doc, now) ==
    [table EXCEPT !.rows[doc.id] =
        IF @.exists
        THEN [@ EXCEPT !.vector = doc.vector, !.content = doc.content,
                       !.metadata = jsonMarshal(doc.metadata), !.updated_at = now]
        ELSE [exists |-> TRUE, vector |-> doc.vector, content |-> doc.content,
              metadata |-> jsonMarshal(doc.metadata), created_at |-> doc.createdAt,
              updated_at |-> now]]

\* A vector column that takes vectors of any length.
InsertError_AnyLength(table, doc) ==
    IF ~table.exists THEN "42P01" ELSE "none"

\* What the server answers to the INSERT: the table must exist, and a
\* vector(n) column takes only vectors of n elements.
InsertError(table, doc) ==
    IF ~table.exists THEN "42P01"
    ELSE IF Len(doc.vector) # table.dim THEN "22000"
    ELSE "none"

(***************************************************************************)
(* UpsertDocument (325-374).                                               *)
(***************************************************************************)
UpsertDocument(p, name, doc) ==
    /\ pc[p] = "idle"
    /\ UNCHANGED <<meta, tables, tx, clock, server, provider, storage>>
    /\ \/ /\ call' = [call EXCEPT ![p] = [op |-> "UpsertDocument", name |-> name, doc |-> doc]]
          /\ Return(p, VectorError(ErrCodeOperationFailed, "conn"), <<>>)
       \/ LET got == getCollectionConfig(name)
              checked == ValidateDocument(doc, got.config, clock)
          IN IF got.err # Nil
             THEN /\ call' = [call EXCEPT ![p] =
                                 [op |-> "UpsertDocument", name |-> name, doc |-> doc]]
                  /\ Return(p, got.err, <<>>)
             ELSE /\ call' = [call EXCEPT ![p] =
                                 [op |-> "UpsertDocument", name |-> name, doc |-> checked.doc,
                                  config |-> got.config]]
                  /\ IF checked.err # Nil
                     THEN Return(p, checked.err, <<>>)
                     ELSE /\ pc' = [pc EXCEPT ![p] = "upsertExec"]
                          /\ UNCHANGED result
    /\ Track(p, TRUE)

\* s.db.ExecContext(ctx, query, ...): one statement, committed by itself
UpsertDocumentExec(p) ==
    /\ pc[p] = "upsertExec"
    /\ UNCHANGED <<meta, tx, call, clock, server, provider, storage>>
    /\ LET name == call[p].name
           doc == call[p].doc
           t == tableName(name)
       IN IF ~IdentParses(name)
          THEN /\ Return(p, VectorError(ErrCodeOperationFailed, "42601"), <<>>)
               /\ UNCHANGED tables
          ELSE \/ /\ Return(p, VectorError(ErrCodeOperationFailed, "conn"), <<>>)
                  /\ UNCHANGED tables
               \/ /\ ~TableLocked(p, t)
                  /\ IF InsertError(tables[t], doc) # "none"
                     THEN /\ Return(p, VectorError(ErrCodeOperationFailed,
                                                   InsertError(tables[t], doc)), <<>>)
                          /\ UNCHANGED tables
                     ELSE /\ tables' = [tables EXCEPT ![t] = InsertOnConflict(@, doc, clock)]
                          /\ Return(p, Nil, <<>>)
    /\ Track(p, FALSE)

(***************************************************************************)
(* UpsertDocuments (377-432) with prepareBulkInsertStmt (792-805).         *)
(***************************************************************************)
UpsertDocuments(p, name, docs) ==
    /\ pc[p] = "idle"
    /\ UNCHANGED <<meta, tables, tx, clock, server, provider, storage>>
    /\ IF Len(docs) = 0
       THEN /\ call' = [call EXCEPT ![p] = [op |-> "UpsertDocuments", name |-> name, docs |-> docs]]
            /\ Return(p, Nil, <<>>)
       ELSE \/ /\ call' = [call EXCEPT ![p] =
                              [op |-> "UpsertDocuments", name |-> name, docs |-> docs]]
               /\ Return(p, VectorError(ErrCodeOperationFailed, "conn"), <<>>)
            \/ LET got == getCollectionConfig(name)
               IN IF got.err # Nil
                  THEN /\ call' = [call EXCEPT ![p] =
                                      [op |-> "UpsertDocuments", name |-> name, docs |-> docs]]
                       /\ Return(p, got.err, <<>>)
                  ELSE /\ call' = [call EXCEPT ![p] =
                                      [op |-> "UpsertDocuments", name |-> name, docs |-> docs,
                                       config |-> got.config, i |-> 1, sent |-> 0]]
                       /\ pc' = [pc EXCEPT ![p] = "batchBegin"]
                       /\ UNCHANGED result
    /\ Track(p, TRUE)

\* s.db.BeginTx
UpsertDocumentsBegin(p) ==
    /\ pc[p] = "batchBegin"
    /\ UNCHANGED <<meta, tables, call, clock, server, provider, storage>>
    /\ \/ /\ Return(p, PlainError("conn"), <<>>)
          /\ UNCHANGED tx
       \/ /\ tx' = [tx EXCEPT ![p] = BeginTx]
          /\ pc' = [pc EXCEPT ![p] = "batchPrepare"]
          /\ UNCHANGED result
    /\ Track(p, FALSE)

\* tx.PrepareContext: the server parses the INSERT, so the table must exist;
\* the error is returned as the driver gave it.
prepareBulkInsertStmt(p) ==
    /\ pc[p] = "batchPrepare"
    /\ UNCHANGED <<call, clock, server, provider, storage>>
    /\ LET name == call[p].name
           t == tableName(name)
       IN IF ~IdentParses(name)
          THEN ReturnTx(p, PlainError("42601"))
          ELSE \/ ReturnTx(p, PlainError("conn"))
               \/ /\ ~TableLocked(p, t)
                  /\ IF ~ViewTable(p, t).exists
                     THEN ReturnTx(p, PlainError("42P01"))
                     ELSE /\ pc' = [pc EXCEPT ![p] = "batchExec"]
                          /\ UNCHANGED <<meta, tables, tx, result>>
    /\ Track(p, FALSE)

\* One turn of the loop: ValidateDocument on docs[i], then stmt.ExecContext.
\* sent counts the statements of the batch the server has been sent.
UpsertDocumentsExec(p) ==
    /\ pc[p] = "batchExec"
    /\ UNCHANGED <<clock, server, provider, storage>>
    /\ LET c == call[p]
           t == tableName(c.name)
           checked == ValidateDocument(c.docs[c.i], c.config, clock)
           stamped == [c EXCEPT !.docs[c.i] = checked.doc]
       IN IF checked.err # Nil
          THEN /\ call' = [call EXCEPT ![p] = stamped]
               /\ ReturnTx(p, checked.err)
          ELSE \/ /\ call' = [call EXCEPT ![p] = [stamped EXCEPT !.sent = @ + 1]]
                  /\ ReturnTx(p, VectorError(ErrCodeOperationFailed, "conn"))
               \/ /\ ~TableLocked(p, t)
                  /\ IF InsertError(ViewTable(p, t), checked.doc) # "none"
                     THEN /\ call' = [call EXCEPT ![p] = [stamped EXCEPT !.sent = @ + 1]]
                          /\ ReturnTx(p, VectorError(ErrCodeOperationFailed,
                                                     InsertError(ViewTable(p, t), checked.doc)))
                     ELSE /\ tx' = [tx EXCEPT ![p].tables[t] =
                                       InsertOnConflict(ViewTable(p, t), checked.doc, clock)]
                          /\ call' = [call EXCEPT ![p] =
                                         [stamped EXCEPT !.sent = @ + 1, !.i = @ + 1]]
                          /\ pc' = [pc EXCEPT ![p] =
                                       IF c.i = Len(c.docs) THEN "batchCommit" ELSE "batchExec"]
                          /\ UNCHANGED <<meta, tables, result>>
    /\ Track(p, FALSE)

UpsertDocumentsCommit(p) ==
    /\ pc[p] = "batchCommit"
    /\ UNCHANGED <<call, clock, server, provider, storage>>
    /\ \/ ReturnTx(p, PlainError("conn"))
       \/ Commit(p)
    /\ Track(p, FALSE)

(***************************************************************************)
(* GetDocument (435-476) and DeleteDocument (479-502).                     *)
(***************************************************************************)
\* json.Unmarshal into map[string]interface{}: the Go type a JSON kind is read as
GoKind(json) ==
    CASE json = "string" -> "string"
      [] json = "bool" -> "bool"
      [] json = "array" -> "[]interface{}"
      [] OTHER -> "float64"
jsonUnmarshal(md) == [f \in DOMAIN md |-> GoValue(GoKind(md[f].json), md[f].v)]

\* SELECT ... FROM table WHERE id = $1, scanned into a VectorDocument
QueryDocument(name, id) ==
    LET t == tableName(name)
    IN IF ~IdentParses(name)
       THEN [err |-> VectorError(ErrCodeOperationFailed, "42601"), out |-> <<>>]
       ELSE IF ~tables[t].exists
       THEN [err |-> VectorError(ErrCodeOperationFailed, "42P01"), out |-> <<>>]
       ELSE IF ~tables[t].rows[id].exists
       THEN [err |-> ErrDocumentNotFound, out |-> <<>>]
       ELSE LET row == tables[t].rows[id]
            IN [err |-> Nil,
                out |-> <<VectorDocument(id, row.vector, row.content,
                                         jsonUnmarshal(row.metadata),
                                         row.created_at, row.updated_at)>>]

GetDocument(p, name, id) ==
    /\ pc[p] = "idle"
    /\ call' = [call EXCEPT ![p] = [op |-> "GetDocument", name |-> name, id |-> id]]
    /\ UNCHANGED <<meta, tables, tx, clock, server, provider, storage>>
    /\ \/ Return(p, VectorError(ErrCodeOperationFailed, "conn"), <<>>)
       \/ /\ IdentParses(name) => ~TableLocked(p, tableName(name))
          /\ Return(p, QueryDocument(name, id).err, QueryDocument(name, id).out)
    /\ Track(p, TRUE)

\* DELETE FROM table WHERE id = $1, and the count of the rows it removed
\* (before: the tables as the call found them, kept for the properties)
DeleteDocument(p, name, id) ==
    /\ pc[p] = "idle"
    /\ call' = [call EXCEPT ![p] = [op |-> "DeleteDocument", name |-> name, id |-> id,
                                     before |-> tables]]
    /\ UNCHANGED <<meta, tx, clock, server, provider, storage>>
    /\ LET t == tableName(name)
       IN IF ~IdentParses(name)
          THEN /\ Return(p, VectorError(ErrCodeOperationFailed, "42601"), <<>>)
               /\ UNCHANGED tables
          ELSE \/ /\ Return(p, VectorError(ErrCodeOperationFailed, "conn"), <<>>)
                  /\ UNCHANGED tables
               \/ /\ ~TableLocked(p, t)
                  /\ IF ~tables[t].exists
                     THEN /\ Return(p, VectorError(ErrCodeOperationFailed, "42P01"), <<>>)
                          /\ UNCHANGED tables
                     ELSE IF ~tables[t].rows[id].exists
                     THEN /\ Return(p, ErrDocumentNotFound, <<>>)
                          /\ UNCHANGED tables
                     ELSE /\ tables' = [tables EXCEPT ![t].rows[id] = NoDoc]
                          /\ Return(p, Nil, <<>>)
    /\ Track(p, TRUE)

(***************************************************************************)
(* SearchByVector (505-537) and SearchByID (540-547) with buildSearchQuery *)
(* (734-767) and scanSearchResults (807-871).                              *)
(***************************************************************************)
NoFilter == <<>>
NilOptions == [isNil |-> TRUE]
VectorSearchOptions(limit, offset, filter, includeMetadata, includeVectors) ==
    [isNil |-> FALSE, limit |-> limit, offset |-> offset, filter |-> filter,
     includeMetadata |-> includeMetadata, includeVectors |-> includeVectors]

\* opts == nil: Limit 10, IncludeMetadata true, every other field zero
DefaultLimit == 10
DefaultOptions == VectorSearchOptions(DefaultLimit, 0, NoFilter, TRUE, FALSE)

\* The options and query vectors callers pass to the searches.
SearchOptions ==
    { NilOptions,
      VectorSearchOptions(1, 0, NoFilter, TRUE, FALSE),
      VectorSearchOptions(2, 1, CatTech, FALSE, FALSE),
      VectorSearchOptions(0, 0, NoFilter, TRUE, TRUE),
      VectorSearchOptions(2, 0, NoFilter, FALSE, TRUE),
      VectorSearchOptions(2, 0, CatText, TRUE, FALSE) }
QueryVectors == {<<1>>, <<0, 0>>, <<0, 1, 0>>}

\* vector <-> $1: the Euclidean distance, in thousandths
RECURSIVE SquaredDistance(_, _)
SquaredDistance(a, b) ==
    IF Len(a) = 0 THEN 0
    ELSE (a[1] - b[1]) * (a[1] - b[1]) + SquaredDistance(Tail(a), Tail(b))
Scale == 1000
Distance(a, b) ==
    LET d2 == SquaredDistance(a, b) * Scale * Scale
    IN CHOOSE r \in 0..(2 * Scale) : r * r <= d2 /\ (r + 1) * (r + 1) > d2

\* WHERE metadata->>'key' = 'value' AND ...: the text of the stored value
\* against the text fmt writes for the filter value
MatchesFilter(row, filter) ==
    \A k \in DOMAIN filter : k \in DOMAIN row.metadata /\ row.metadata[k].v = filter[k].v

\* the number of columns the query selects, and the number scanSearchResults
\* reads: hasVector is declared in the loop and never set
SelectedColumns(opts) == IF opts.includeVectors THEN 7 ELSE 6
ScannedColumns == LET hasVector == FALSE IN IF hasVector THEN 7 ELSE 6

\* The ORDER BY left out: the matching rows come back in any order.
Orderings_Unordered(table, ids, vector) ==
    {s \in [1..Cardinality(ids) -> ids] : \A i, j \in DOMAIN s : i # j => s[i] # s[j]}

\* ORDER BY distance: every order of the matching rows in which the
\* distance does not decrease
Orderings(table, ids, vector) ==
    {s \in [1..Cardinality(ids) -> ids] :
        /\ \A i, j \in DOMAIN s : i # j => s[i] # s[j]
        /\ \A i, j \in DOMAIN s :
              i < j => Distance(table.rows[s[i]].vector, vector)
                          <= Distance(table.rows[s[j]].vector, vector)}

\* LIMIT $2 OFFSET $3
Window(s, limit, offset) ==
    IF offset >= Len(s) \/ limit = 0 THEN <<>>
    ELSE SubSeq(s, offset + 1, IF offset + limit > Len(s) THEN Len(s) ELSE offset + limit)

\* one scanned row
VectorSearchResult(table, id, vector, opts) ==
    LET row == table.rows[id]
        distance == Distance(row.vector, vector)
    IN [document |-> VectorDocument(id, <<>>, row.content,
                                    IF opts.includeMetadata THEN jsonUnmarshal(row.metadata)
                                                            ELSE NoMetadata,
                                    row.created_at, row.updated_at),
        score |-> Scale - distance,
        distance |-> distance]

\* The search step of SearchByVector omitting the comparison of the query
\* vector with the dimension.
searchConfig_NoDimensionCheck(p, c) ==
    /\ UNCHANGED <<meta, tables, tx, clock, server, provider, storage>>
    /\ \/ /\ call' = [call EXCEPT ![p] = c]
          /\ Return(p, VectorError(ErrCodeOperationFailed, "conn"), <<>>)
       \/ LET got == getCollectionConfig(c.name)
          IN IF got.err # Nil
             THEN /\ call' = [call EXCEPT ![p] = c]
                  /\ Return(p, got.err, <<>>)
             ELSE /\ call' = [call EXCEPT ![p] =
                                 [c EXCEPT !.used = IF c.opts.isNil THEN DefaultOptions ELSE c.opts]]
                  /\ pc' = [pc EXCEPT ![p] = "searchQuery"]
                  /\ UNCHANGED result

\* getCollectionConfig, the dimension check and the default options
searchConfig(p, c) ==
    /\ UNCHANGED <<meta, tables, tx, clock, server, provider, storage>>
    /\ \/ /\ call' = [call EXCEPT ![p] = c]
          /\ Return(p, VectorError(ErrCodeOperationFailed, "conn"), <<>>)
       \/ LET got == getCollectionConfig(c.name)
          IN IF got.err # Nil
             THEN /\ call' = [call EXCEPT ![p] = c]
                  /\ Return(p, got.err, <<>>)
             ELSE IF Len(c.vector) # got.config.dimension
             THEN /\ call' = [call EXCEPT ![p] = c]
                  /\ Return(p, ErrInvalidDimension, <<>>)
             ELSE /\ call' = [call EXCEPT ![p] =
                                 [c EXCEPT !.used = IF c.opts.isNil THEN DefaultOptions ELSE c.opts]]
                  /\ pc' = [pc EXCEPT ![p] = "searchQuery"]
                  /\ UNCHANGED result

SearchByVector(p, name, vector, opts) ==
    /\ pc[p] = "idle"
    /\ searchConfig(p, [op |-> "SearchByVector", name |-> name, vector |-> vector,
                        opts |-> opts, used |-> opts])
    /\ Track(p, TRUE)

\* s.db.QueryContext(ctx, query, vec, opts.Limit, opts.Offset), then
\* scanSearchResults
SearchQuery(p) ==
    /\ pc[p] = "searchQuery"
    /\ UNCHANGED <<meta, tables, tx, call, clock, server, provider, storage>>
    /\ LET c == call[p]
           t == tableName(c.name)
           opts == c.used
       IN IF ~IdentParses(c.name)
          THEN Return(p, VectorError(ErrCodeOperationFailed, "42601"), <<>>)
          ELSE \/ Return(p, VectorError(ErrCodeOperationFailed, "conn"), <<>>)
               \/ /\ ~TableLocked(p, t)
                  /\ IF ~tables[t].exists
                     THEN Return(p, VectorError(ErrCodeOperationFailed, "42P01"), <<>>)
                     ELSE LET ids == {i \in DocIDs : /\ tables[t].rows[i].exists
                                                     /\ MatchesFilter(tables[t].rows[i], opts.filter)}
                          IN IF ids # {} /\ Len(c.vector) # tables[t].dim
                             THEN Return(p, VectorError(ErrCodeOperationFailed, "22000"), <<>>)
                             ELSE \E s \in Orderings(tables[t], ids, c.vector) :
                                     LET w == Window(s, opts.limit, opts.offset)
                                     IN IF Len(w) > 0 /\ SelectedColumns(opts) # ScannedColumns
                                        THEN Return(p, VectorError(ErrCodeOperationFailed, "scan"),
                                                    <<>>)
                                        ELSE Return(p, Nil,
                                                    [k \in DOMAIN w |->
                                                        VectorSearchResult(tables[t], w[k],
                                                                           c.vector, opts)])
    /\ Track(p, FALSE)

\* SearchByID: GetDocument, then SearchByVector with the vector it returned
SearchByID(p, name, id, opts) ==
    /\ pc[p] = "idle"
    /\ UNCHANGED <<meta, tables, tx, clock, server, provider, storage>>
    /\ \/ /\ call' = [call EXCEPT ![p] = [op |-> "SearchByID", name |-> name, id |-> id,
                                         opts |-> opts, used |-> opts]]
          /\ Return(p, VectorError(ErrCodeOperationFailed, "conn"), <<>>)
       \/ /\ IdentParses(name) => ~TableLocked(p, tableName(name))
          /\ IF QueryDocument(name, id).err # Nil
             THEN /\ call' = [call EXCEPT ![p] = [op |-> "SearchByID", name |-> name, id |-> id,
                                                 opts |-> opts, used |-> opts]]
                  /\ Return(p, QueryDocument(name, id).err, <<>>)
             ELSE /\ call' = [call EXCEPT ![p] =
                                 [op |-> "SearchByID", name |-> name, id |-> id, opts |-> opts,
                                  used |-> opts, vector |-> QueryDocument(name, id).out[1].vector]]
                  /\ pc' = [pc EXCEPT ![p] = "searchByIDConfig"]
                  /\ UNCHANGED result
    /\ Track(p, TRUE)

SearchByIDVector(p) ==
    /\ pc[p] = "searchByIDConfig"
    /\ searchConfig(p, call[p])
    /\ Track(p, FALSE)

(***************************************************************************)
(* One caller at a time: every handler runs to its return before the next  *)
(* call begins.                                                            *)
(***************************************************************************)
Caller == CHOOSE p \in Procs : \A q \in Procs : p <= q

Next ==
    \/ Tick
    \/ Returned(Caller)
    \/ \E config \in Configs : CreateCollection(Caller, config)
    \/ createCollectionTable(Caller)
    \/ createCollectionIndex(Caller)
    \/ storeCollectionMetadata(Caller)
    \/ CreateCollectionCommit(Caller)
    \/ \E name \in Names : DeleteCollection(Caller, name)
    \/ DeleteCollectionDrop(Caller)
    \/ deleteCollectionMetadata(Caller)
    \/ DeleteCollectionCommit(Caller)
    \/ \E name \in Names, doc \in Documents : UpsertDocument(Caller, name, doc)
    \/ UpsertDocumentExec(Caller)
    \/ \E name \in Names, docs \in Batches : UpsertDocuments(Caller, name, docs)
    \/ UpsertDocumentsBegin(Caller)
    \/ prepareBulkInsertStmt(Caller)
    \/ UpsertDocumentsExec(Caller)
    \/ UpsertDocumentsCommit(Caller)
    \/ \E name \in Names, id \in DocIDs : GetDocument(Caller, name, id)
    \/ \E name \in Names, id \in DocIDs : DeleteDocument(Caller, name, id)
    \/ \E name \in Names, vector \in QueryVectors, opts \in SearchOptions :
          SearchByVector(Caller, name, vector, opts)
    \/ SearchQuery(Caller)
    \/ \E name \in Names, id \in DocIDs, opts \in SearchOptions :
          SearchByID(Caller, name, id, opts)
    \/ SearchByIDVector(Caller)

Spec == Init /\ [][Next]_vars

(***************************************************************************)
(* Two callers, each making one CreateCollection call on the empty store,  *)
(* in every interleaving of their statements.                              *)
(***************************************************************************)
ConcurrentConfigs ==
    { VectorCollectionConfig(NameDocs, 1, "hnsw", "cosine", NoFields),
      VectorCollectionConfig(NameDocs, MaxDimension, "ivf_flat", "euclidean", CatRequired),
      VectorCollectionConfig(NameDocsUpper, MaxDimension, "", "dot_product", NoFields) }

NextConc ==
    \E p \in Procs :
        \/ \E config \in ConcurrentConfigs : CreateCollection(p, config)
        \/ createCollectionTable(p)
        \/ createCollectionTableWait(p)
        \/ createCollectionIndex(p)
        \/ storeCollectionMetadata(p)
        \/ CreateCollectionCommit(p)

SpecConc == Init /\ [][NextConc]_vars

(***************************************************************************)
(* Properties.                                                             *)
(***************************************************************************)
\* the call of the caller has returned, and which call it was
Done(op) == pc[Caller] = "returned" /\ call[Caller].op = op
Err == result[Caller].err
\* the connection did not fail during the call
NoConnFault == Err.cause # "conn"

\* C1: every document stored in a collection has a vector as long as the
\* collection's dimension; an UpsertDocument whose vector length differs from
\* the dimension fails with InvalidDimension and leaves the store unchanged.
C1_StoredVectorsHaveDimension ==
    /\ \A n \in Names :
          Registered(n) => \A d \in StoredDocs(n) : Len(d.vector) = meta[n].dimension
    /\ ( /\ Done("UpsertDocument")
         /\ NoConnFault
         /\ "config" \in DOMAIN call[Caller]
         /\ ~call[Caller].doc.isNil )
       => ( (call[Caller].doc.id # "" /\ Len(call[Caller].doc.vector) # call[Caller].config.dimension)
            => (Err = VectorError(ErrCodeInvalidDimension, "none") /\ ~changed[Caller]) )

\* C2: UpsertDocuments is all-or-nothing: when the call returns an error,
\* whatever the document or statement that failed, the committed documents
\* are what they were before the call.
C2_BatchAllOrNothing ==
    (Done("UpsertDocuments") /\ Err # Nil) => ~changed[Caller]

\* C2 witness: a batch failed after one of its documents had been written.
C2_Witness ==
    /\ Done("UpsertDocuments")
    /\ Err # Nil
    /\ "i" \in DOMAIN call[Caller]
    /\ call[Caller].i >= 2
    /\ ~changed[Caller]

\* C3: CreateCollection for a name that is registered fails and leaves the
\* metadata rows, the tables, their indexes and their documents as they were;
\* with a configuration that passes validation and no connection fault the
\* error is CollectionExists.
C3_CreateExistingFails ==
    (Done("CreateCollection") /\ call[Caller].registered)
    => /\ Err # Nil
       /\ ~changed[Caller]
       /\ (ValidateCollection(call[Caller].config) = Nil /\ NoConnFault)
             => Err = ErrCollectionExists

\* C3 witness: CollectionExists returned for a collection that holds documents.
C3_Witness ==
    /\ Done("CreateCollection")
    /\ call[Caller].registered
    /\ Err = ErrCollectionExists
    /\ StoredDocs(call[Caller].config.name) # {}
    /\ ~changed[Caller]

\* C4: CreateCollection is atomic: a call that fails for a name that was absent
\* leaves neither the metadata row nor anything else behind, and in every
\* committed state every registered collection has its table and every table
\* belongs to a registered collection.
C4_TableIffMetadataRow ==
    /\ (Done("CreateCollection") /\ Err # Nil /\ ~call[Caller].registered)
          => (~changed[Caller] /\ (~call[Caller].config.isNil => ~Registered(call[Caller].config.name)))
    /\ \A n \in Names : Registered(n) => HasTable(n)
    /\ \A t \in Idents : tables[t].exists => \E n \in Names : Registered(n) /\ tableName(n) = t

\* C5: DeleteCollection(name) fails with CollectionNotFound when name is not
\* registered and leaves the store unchanged; when name is registered it
\* removes the metadata row and the table with all its documents.
C5_DeleteCollection ==
    (Done("DeleteCollection") /\ NoConnFault)
    => /\ ~call[Caller].registered => (Err = ErrCollectionNotFound /\ ~changed[Caller])
       /\ call[Caller].registered
             => /\ Err = Nil
                /\ ~Registered(call[Caller].name)
                /\ ~HasTable(call[Caller].name)
                /\ StoredDocs(call[Caller].name) = {}

\* C6: an upsert of an id that is stored replaces vector, content, metadata
\* and updated_at by those of the write and keeps the stored created_at,
\* whatever createdAt the call carries; no other row of the table changes.
C6_UpsertKeepsCreatedAt ==
    [][ LET c == call[Caller]
            t == tableName(c.name)
        IN /\ ( /\ pc[Caller] = "upsertExec"
                /\ result'[Caller].err = Nil
                /\ pc'[Caller] = "returned"
                /\ tables[t].rows[c.doc.id].exists )
              => /\ tables'[t].rows[c.doc.id] =
                       [exists |-> TRUE, vector |-> c.doc.vector, content |-> c.doc.content,
                        metadata |-> jsonMarshal(c.doc.metadata),
                        created_at |-> tables[t].rows[c.doc.id].created_at,
                        updated_at |-> clock]
                 /\ \A i \in DocIDs \ {c.doc.id} : tables'[t].rows[i] = tables[t].rows[i]
           /\ ( /\ pc[Caller] = "batchExec"
                /\ pc'[Caller] \in {"batchExec", "batchCommit"}
                /\ call'[Caller].i = c.i + 1
                /\ ViewTable(Caller, t).rows[c.docs[c.i].id].exists )
              => /\ tx'[Caller].tables[t].rows[c.docs[c.i].id] =
                       [exists |-> TRUE, vector |-> c.docs[c.i].vector,
                        content |-> c.docs[c.i].content,
                        metadata |-> jsonMarshal(c.docs[c.i].metadata),
                        created_at |-> ViewTable(Caller, t).rows[c.docs[c.i].id].created_at,
                        updated_at |-> clock]
                 /\ \A i \in DocIDs \ {c.docs[c.i].id} :
                       tx'[Caller].tables[t].rows[i] = ViewTable(Caller, t).rows[i]
      ]_vars

\* C6 witness: an upsert has returned success and the stored created_at is not
\* the createdAt the call carried, while the content is the one it carried.
C6_Witness ==
    /\ Done("UpsertDocument")
    /\ Err = Nil
    /\ LET row == tables[tableName(call[Caller].name)].rows[call[Caller].doc.id]
       IN /\ row.exists
          /\ row.created_at # call[Caller].doc.createdAt
          /\ row.content = call[Caller].doc.content
          /\ row.vector = call[Caller].doc.vector

\* C7: no handler returns with its transaction open: whenever the caller is
\* outside a call, or holds the result of one, it has no open transaction.
C7_NoTransactionLeftOpen ==
    \A p \in Procs : pc[p] \in {"idle", "returned"} => ~tx[p].open

\* C7 witness: one of the three handlers has returned an error from inside
\* its transaction, after a statement of the transaction was refused.
C7_Witness ==
    /\ pc[Caller] = "returned"
    /\ call[Caller].op \in {"CreateCollection", "DeleteCollection", "UpsertDocuments"}
    /\ Err \in {ErrCollectionExists, ErrCollectionNotFound,
                VectorError(ErrCodeOperationFailed, "22000")}
    /\ ~tx[Caller].open

\* C8: two concurrent CreateCollection calls for the same absent name: one
\* succeeds, the other returns CollectionExists, and the store holds the
\* complete collection (metadata row, table and index).
C8_ConcurrentCreate ==
    ( /\ \A p \in Procs : pc[p] = "returned" /\ result[p].err.cause # "conn"
      /\ call[1].config.name = call[2].config.name )
    => /\ {result[1].err, result[2].err} = {Nil, ErrCollectionExists}
       /\ Registered(call[1].config.name)
       /\ HasTable(call[1].config.name)
       /\ Len(tables[tableName(call[1].config.name)].indexes) >= 1

\* C9: GetDocument, SearchByVector and SearchByID on a name that is not
\* registered fail with CollectionNotFound.
C9_ReadsOfUnregistered ==
    ( /\ pc[Caller] = "returned"
      /\ call[Caller].op \in {"GetDocument", "SearchByVector", "SearchByID"}
      /\ NoConnFault
      /\ ~Registered(call[Caller].name) )
    => Err = ErrCollectionNotFound

\* C10 as claimed: UpsertDocument and UpsertDocuments on a name without a
\* metadata row fail with CollectionNotFound and write nothing, whatever the
\* size of the batch.
C10_UpsertUnregisteredAnyBatch ==
    ( /\ pc[Caller] = "returned"
      /\ call[Caller].op \in {"UpsertDocument", "UpsertDocuments"}
      /\ NoConnFault
      /\ ~Registered(call[Caller].name) )
    => (Err = ErrCollectionNotFound /\ ~changed[Caller])

\* C10 amended: UpsertDocument, and UpsertDocuments with a batch that is not
\* empty, fail with CollectionNotFound on a name without a metadata row; an
\* empty batch returns success without reading the row; nothing is written in
\* either case.
C10_UpsertUnregistered ==
    ( /\ pc[Caller] = "returned"
      /\ call[Caller].op \in {"UpsertDocument", "UpsertDocuments"}
      /\ NoConnFault
      /\ ~Registered(call[Caller].name) )
    => /\ ~changed[Caller]
       /\ IF call[Caller].op = "UpsertDocuments" /\ Len(call[Caller].docs) = 0
          THEN Err = Nil
          ELSE Err = ErrCollectionNotFound

\* C10 witness: a batch of two documents was refused for a name that has no
\* row, although a table answers to the name.
C10_Witness ==
    /\ Done("UpsertDocuments")
    /\ Len(call[Caller].docs) >= 2
    /\ ~Registered(call[Caller].name)
    /\ HasTable(call[Caller].name)
    /\ Err = ErrCollectionNotFound
    /\ ~changed[Caller]

\* the document id is a row of the table the collection's statements name
Stored(tbls, name, id) ==
    /\ IdentParses(name)
    /\ tbls[tableName(name)].exists
    /\ tbls[tableName(name)].rows[id].exists

\* C11: in a registered collection, GetDocument and DeleteDocument of an id
\* that is not stored fail with DocumentNotFound and change nothing;
\* DeleteDocument of a stored id succeeds and removes that row and no other,
\* and GetDocument succeeds exactly for the ids that are stored.
C11_DocumentNotFound ==
    /\ ( /\ Done("GetDocument")
         /\ NoConnFault
         /\ Registered(call[Caller].name) )
       => /\ ~changed[Caller]
          /\ IF Stored(tables, call[Caller].name, call[Caller].id)
             THEN Err = Nil
             ELSE Err = ErrDocumentNotFound
    /\ ( /\ Done("DeleteDocument")
         /\ NoConnFault
         /\ Registered(call[Caller].name) )
       => IF Stored(call[Caller].before, call[Caller].name, call[Caller].id)
          THEN /\ Err = Nil
               /\ tables = [call[Caller].before EXCEPT
                               ![tableName(call[Caller].name)].rows[call[Caller].id] = NoDoc]
          ELSE /\ Err = ErrDocumentNotFound
               /\ ~changed[Caller]

SearchDone == pc[Caller] = "returned" /\ call[Caller].op \in {"SearchByVector", "SearchByID"}
Results == result[Caller].out

C14_FilterIsEquality ==
    (SearchDone /\ Err = Nil /\ "used" \in DOMAIN call[Caller])
    => LET c == call[Caller]
           opts == IF c.opts.isNil THEN DefaultOptions ELSE c.opts
           rows == tables[tableName(c.name)].rows
       IN /\ \A i \in DOMAIN Results :
                \A k \in DOMAIN opts.filter :
                    /\ k \in DOMAIN rows[Results[i].document.id].metadata
                    /\ rows[Results[i].document.id].metadata[k] = jsonMarshal(opts.filter)[k]
          /\ (DOMAIN opts.filter = {} /\ opts.offset = 0
                 /\ opts.limit >= Cardinality({d \in DocIDs : rows[d].exists}))
             => {Results[i].document.id : i \in DOMAIN Results} = {d \in DocIDs : rows[d].exists}

\* the outcomes SearchByVector(name, vector, opts) can have on the committed
\* data when the connection does not fail
SearchByVectorOutcomes(name, vector, opts) ==
    LET got == getCollectionConfig(name)
        t == tableName(name)
        used == IF opts.isNil THEN DefaultOptions ELSE opts
        fail(e) == {[err |-> e, out |-> <<>>]}
    IN IF got.err # Nil THEN fail(got.err)
       ELSE IF Len(vector) # got.config.dimension THEN fail(ErrInvalidDimension)
       ELSE IF ~IdentParses(name) THEN fail(VectorError(ErrCodeOperationFailed, "42601"))
       ELSE IF ~tables[t].exists THEN fail(VectorError(ErrCodeOperationFailed, "42P01"))
       ELSE LET ids == {i \in DocIDs : /\ tables[t].rows[i].exists
                                       /\ MatchesFilter(tables[t].rows[i], used.filter)}
            IN IF ids # {} /\ Len(vector) # tables[t].dim
               THEN fail(VectorError(ErrCodeOperationFailed, "22000"))
               ELSE { LET w == Window(s, used.limit, used.offset)
                      IN IF Len(w) > 0 /\ SelectedColumns(used) # ScannedColumns
                         THEN [err |-> VectorError(ErrCodeOperationFailed, "scan"), out |-> <<>>]
                         ELSE [err |-> Nil,
                               out |-> [k \in DOMAIN w |->
                                           VectorSearchResult(tables[t], w[k], vector, used)]]
                      : s \in Orderings(tables[t], ids, vector) }

\* C15: SearchByVector without an options object behaves as with limit 10,
\* offset 0, includeMetadata true and no filter; with an options object the
\* limit and the offset are those of the object, zero included; the result is
\* the window [offset, offset + limit) of the matching documents in the order
\* of their distance.
C15_DefaultsAndWindow ==
    ( /\ Done("SearchByVector")
      /\ NoConnFault
      /\ Registered(call[Caller].name)
      /\ Len(call[Caller].vector) = meta[call[Caller].name].dimension )
    => LET c == call[Caller]
           t == tableName(c.name)
           opts == IF c.opts.isNil
                   THEN [limit |-> 10, offset |-> 0, filter |-> NoFilter, includeMetadata |-> TRUE]
                   ELSE c.opts
       IN /\ Err = Nil
          /\ HasTable(c.name)
          /\ LET ids == {i \in DocIDs : /\ tables[t].rows[i].exists
                                        /\ MatchesFilter(tables[t].rows[i], opts.filter)}
             IN \E s \in Orderings(tables[t], ids, c.vector) :
                   /\ [k \in DOMAIN Results |-> Results[k].document.id]
                         = Window(s, opts.limit, opts.offset)
                   /\ \A k \in DOMAIN Results :
                         Results[k].document.metadata =
                            IF opts.includeMetadata
                            THEN jsonUnmarshal(tables[t].rows[Results[k].document.id].metadata)
                            ELSE NoMetadata

\* C16: SearchByID in a registered collection fails with DocumentNotFound
\* when the id is not stored, and otherwise has an outcome of SearchByVector
\* for the stored vector of the id and the same options.
C16_SearchByIDIsSearchByVector ==
    ( /\ Done("SearchByID")
      /\ NoConnFault
      /\ Registered(call[Caller].name) )
    => IF ~Stored(tables, call[Caller].name, call[Caller].id)
       THEN Err = ErrDocumentNotFound /\ Results = <<>>
       ELSE result[Caller] \in
               SearchByVectorOutcomes(call[Caller].name,
                                      tables[tableName(call[Caller].name)].rows[call[Caller].id].vector,
                                      call[Caller].opts)

(***************************************************************************)
(* The functions of the validator and buildIndexQuery called directly, on  *)
(* arguments of every kind, as the unit tests call them.                   *)
(***************************************************************************)
IndexTypes == {"", "flat", "ivf_flat", "hnsw", "annoy"}
DistanceTypes == {"", "cosine", "euclidean", "dot_product", "manhattan"}
IndexConfigs ==
    { VectorCollectionConfig(n, d, it, dt, NoFields) :
         n \in {NameDocs, NameDocsUpper}, d \in 1..MaxDimension,
         it \in IndexTypes, dt \in DistanceTypes }

NameDigitFirst == <<"1", "a", "b">>
NameBang == <<"d", "o", "c", "!">>
NameUnderscore == <<"a", "_", "1">>
NameLongest == [i \in 1..64 |-> "a"]
NameTooLong == [i \in 1..65 |-> "a"]
FieldTag == <<"t", "a", "g">>
CatAndTag == (FieldCat :> VectorFieldConfig("string", TRUE)) @@
             (FieldTag :> VectorFieldConfig("int", FALSE))
CatAndBadTag == (FieldCat :> VectorFieldConfig("datetime", FALSE)) @@
                (NameHyphen :> VectorFieldConfig("array", TRUE))
TagRequired == (FieldTag :> VectorFieldConfig("array", TRUE))
ValidatorConfigs ==
    {NilConfig} \cup
    { VectorCollectionConfig(n, d, "hnsw", "cosine", cf) :
         n \in {NameDocs, NameHyphen, NameShort, NameDigitFirst, NameBang,
                NameUnderscore, NameLongest, NameTooLong},
         d \in {-1, 0, 1, MaxDimension, MaxDimension + 1},
         cf \in {NoFields, CatRequired, CatBadType, CatBadName, CatAndTag, CatAndBadTag} }

GoTypes ==
    {"string", "int", "int8", "int16", "int32", "int64", "uint", "uint8", "uint32",
     "float32", "float64", "bool", "time.Time", "[]interface{}", "[]string", "nil"}
DeclaredTypes == FieldTypes \cup {"text"}

TagInt == (FieldTag :> GoValue("int", "7"))
TagInt64 == (FieldTag :> GoValue("int64", "7"))
TagFloat == (FieldTag :> GoValue("float64", "7"))
TagArray == (FieldTag :> GoValue("[]interface{}", "7"))
ValidatorMetadata ==
    {NoMetadata, CatTech, CatInt, TagInt, TagFloat, TagArray,
     CatTech @@ TagInt, CatTech @@ TagInt64, CatTech @@ TagFloat, CatInt @@ TagFloat}
ValidatorDocuments ==
    {NilDoc} \cup
    { VectorDocument(id, vec, "x", md, created, ZeroTime) :
         id \in {"", "d1"}, vec \in {<<1>>, <<0, 1>>}, md \in ValidatorMetadata,
         created \in {ZeroTime, 1} }
DocumentConfigs ==
    { VectorCollectionConfig(NameDocs, d, "hnsw", "cosine", cf) :
         d \in {1, MaxDimension}, cf \in {NoFields, CatRequired, CatAndTag, TagRequired} }

\* the orders in which a range over the map can visit its keys
VisitOrders(schema) ==
    {s \in [1..Cardinality(DOMAIN schema) -> DOMAIN schema] :
        \A i, j \in DOMAIN s : i # j => s[i] # s[j]}

\* for name, field := range schema, in the order given: the error of the
\* first field that fails, and that field
RECURSIVE validateCustomFieldsVisit(_, _, _)
validateCustomFieldsVisit(metadata, schema, order) ==
    IF Len(order) = 0 THEN [err |-> Nil, field |-> <<>>]
    ELSE LET name == Head(order)
             field == schema[name]
             exists == name \in DOMAIN metadata
         IN IF field.required /\ ~exists
            THEN [err |-> VectorError(ErrCodeInvalidConfig, "none"), field |-> name]
            ELSE IF exists /\ ~validateFieldType(metadata[name], field.type)
            THEN [err |-> VectorError(ErrCodeInvalidConfig, "none"), field |-> name]
            ELSE validateCustomFieldsVisit(metadata, schema, Tail(order))

buildIndexQueryCall(config) ==
    /\ pc[Caller] = "idle"
    /\ call' = [call EXCEPT ![Caller] = [op |-> "buildIndexQuery", config |-> config]]
    /\ Return(Caller, Nil, <<buildIndexQuery(config)>>)
    /\ UNCHANGED <<meta, tables, tx, changed, clock, server, provider, storage>>

ValidateCollectionCall(config) ==
    /\ pc[Caller] = "idle"
    /\ call' = [call EXCEPT ![Caller] = [op |-> "ValidateCollection", config |-> config]]
    /\ Return(Caller, ValidateCollection(config), <<>>)
    /\ UNCHANGED <<meta, tables, tx, changed, clock, server, provider, storage>>

\* ValidateDocument, with the order in which validateCustomFields visits the
\* schema; out is the document as the call leaves it and the field reported
ValidateDocumentCall(doc, config, order) ==
    LET checked == ValidateDocument(doc, config, clock)
        visited == validateCustomFieldsVisit(doc.metadata, config.customFields, order)
        custom == ~doc.isNil /\ doc.id # "" /\ Len(doc.vector) = config.dimension
    IN /\ pc[Caller] = "idle"
       /\ call' = [call EXCEPT ![Caller] =
                      [op |-> "ValidateDocument", doc |-> doc, config |-> config,
                       order |-> order]]
       /\ Return(Caller, IF custom THEN visited.err ELSE checked.err,
                 <<checked.doc, IF custom THEN visited.field ELSE <<>> >>)
       /\ UNCHANGED <<meta, tables, tx, changed, clock, server, provider, storage>>

validateFieldTypeCall(gotype, expectedType) ==
    /\ pc[Caller] = "idle"
    /\ call' = [call EXCEPT ![Caller] =
                   [op |-> "validateFieldType", gotype |-> gotype,
                    expectedType |-> expectedType]]
    /\ Return(Caller, IF validateFieldType(GoValue(gotype, "7"), expectedType)
                      THEN Nil ELSE PlainError("none"), <<>>)
    /\ UNCHANGED <<meta, tables, tx, changed, clock, server, provider, storage>>

NextValidator ==
    \/ Tick
    \/ Returned(Caller)
    \/ \E config \in IndexConfigs : buildIndexQueryCall(config)
    \/ \E config \in ValidatorConfigs : ValidateCollectionCall(config)
    \/ \E doc \in ValidatorDocuments, config \in DocumentConfigs :
          \E order \in VisitOrders(config.customFields) :
             ValidateDocumentCall(doc, config, order)
    \/ \E gotype \in GoTypes, expectedType \in DeclaredTypes :
          validateFieldTypeCall(gotype, expectedType)

SpecValidator == Init /\ [][NextValidator]_vars

C18_ValidateCollection ==
    Done("ValidateCollection")
    => LET config == call[Caller].config
       IN Err = IF config.isNil THEN VectorError(ErrCodeInvalidConfig, "none")
                ELSE IF ~validCollectionName(config.name)
                     THEN VectorError(ErrCodeInvalidConfig, "none")
                ELSE IF ~(1 <= config.dimension /\ config.dimension <= MaxDimension)
                     THEN VectorError(ErrCodeInvalidDimension, "none")
                ELSE IF \E f \in DOMAIN config.customFields :
                            \/ ~validFieldName(f)
                            \/ config.customFields[f].type \notin
                                  {"string", "int", "float", "bool", "datetime", "array"}
                     THEN VectorError(ErrCodeInvalidConfig, "none")
                ELSE Nil

\* C18 witness: a configuration whose name and dimension both fail is
\* refused for its name.
C18_Witness ==
    /\ Done("ValidateCollection")
    /\ ~call[Caller].config.isNil
    /\ ~validCollectionName(call[Caller].config.name)
    /\ call[Caller].config.dimension > MaxDimension
    /\ Err = VectorError(ErrCodeInvalidConfig, "none")

\* the Go types validateFieldType takes for a declared type
AcceptedTypes(declared) ==
    CASE declared = "string" -> {"string"}
      [] declared = "int" -> {"int", "int32", "int64"}
      [] declared = "float" -> {"float32", "float64"}
      [] declared = "bool" -> {"bool"}
      [] declared = "datetime" -> {"time.Time"}
      [] declared = "array" -> {"[]interface{}"}
      [] OTHER -> GoTypes

\* C19: ValidateDocument returns InvalidConfig for an absent document or an
\* empty id, else InvalidDimension for a vector whose length is not the
\* dimension, else InvalidConfig when a required field is missing or a field
\* of the schema holds a value of the wrong type, else nil; the error is the
\* same in whatever order the fields of the schema are visited.
C19_ValidateDocument ==
    Done("ValidateDocument")
    => LET doc == call[Caller].doc
           config == call[Caller].config
           schema == config.customFields
       IN Err = IF doc.isNil \/ doc.id = "" THEN VectorError(ErrCodeInvalidConfig, "none")
                ELSE IF Len(doc.vector) # config.dimension
                     THEN VectorError(ErrCodeInvalidDimension, "none")
                ELSE IF \E f \in DOMAIN schema :
                            \/ schema[f].required /\ f \notin DOMAIN doc.metadata
                            \/ /\ f \in DOMAIN doc.metadata
                               /\ doc.metadata[f].gotype \notin AcceptedTypes(schema[f].type)
                     THEN VectorError(ErrCodeInvalidConfig, "none")
                ELSE Nil

\* C19 witness: two fields of the schema fail, the one visited first is not
\* the first of the schema, and the error is InvalidConfig.
C19_Witness ==
    /\ Done("ValidateDocument")
    /\ Err = VectorError(ErrCodeInvalidConfig, "none")
    /\ Len(call[Caller].order) = 2
    /\ Results[2] = FieldTag
    /\ FieldCat \notin DOMAIN call[Caller].doc.metadata
    /\ call[Caller].config.customFields[FieldCat].required

\* the Go types C20 claims a declared type takes: every integer type for int,
\* every ordered sequence for array
ClaimedTypes(declared) ==
    CASE declared = "string" -> {"string"}
      [] declared = "int" -> {"int", "int8", "int16", "int32", "int64", "uint", "uint8", "uint32"}
      [] declared = "float" -> {"float32", "float64"}
      [] declared = "bool" -> {"bool"}
      [] declared = "datetime" -> {"time.Time"}
      [] declared = "array" -> {"[]interface{}", "[]string"}
      [] OTHER -> {}

\* C20 as claimed: a value is accepted for a declared type exactly when its
\* type matches it, int taking every fixed-width integer type and array every
\* ordered sequence.
C20_TypeMatchesAsClaimed ==
    (Done("validateFieldType") /\ call[Caller].expectedType \in FieldTypes)
    => (Err = Nil <=> call[Caller].gotype \in ClaimedTypes(call[Caller].expectedType))

\* C20 amended: string takes only string, int only int, int32 and int64,
\* float only float32 and float64, bool only bool, datetime only time.Time,
\* array only []interface{}; a declared type outside the six takes every value.
C20_TypeMatches ==
    Done("validateFieldType")
    => (Err = Nil <=> call[Caller].gotype \in AcceptedTypes(call[Caller].expectedType))

\* C20 witness: an int16 refused for a field declared int.
C20_Witness ==
    /\ Done("validateFieldType")
    /\ call[Caller].gotype = "int16"
    /\ call[Caller].expectedType = "int"
    /\ Err = PlainError("none")

(***************************************************************************)
(* Error wrapping, batch validation and the search statement.              *)
(***************************************************************************)
\* the codes of the taxonomy
ErrCodes ==
    {ErrCodeNotFound, ErrCodeInvalidDimension, ErrCodeInvalidConfig,
     ErrCodeCollectionExists, ErrCodeCollectionNotFound, ErrCodeOperationFailed}

\* C23: whenever a backend step of a provider operation fails (begin, exec,
\* prepare, query, commit), the error the operation returns is a VectorError
\* with a code of the taxonomy that wraps the backend's error; an operation
\* that had a backend step fail does not return nil.
C23_BackendFailuresAreVectorErrors ==
    \A p \in Procs :
       (pc[p] = "returned" /\ result[p].err.cause # "none")
       => /\ result[p].err.kind = "VectorError"
          /\ result[p].err.code \in ErrCodes

\* C25: when UpsertDocuments returns the error of ValidateDocument, no
\* statement of the batch has been sent for any document, and the error is
\* the validator's own InvalidConfig or InvalidDimension.
C25_ValidatedBeforeAnyStatement ==
    (/\ Done("UpsertDocuments")
     /\ "i" \in DOMAIN call[Caller]
     /\ call[Caller].i <= Len(call[Caller].docs)
     /\ ValidateDocument(call[Caller].docs[call[Caller].i], call[Caller].config, clock).err # Nil
     /\ Err.cause = "none")
    => /\ call[Caller].sent = 0
       /\ Err \in {VectorError(ErrCodeInvalidConfig, "none"),
                   VectorError(ErrCodeInvalidDimension, "none")}

\* C29: the columns SearchByVector selects are the columns it reads back, so
\* that no search fails at the row scan; a successful search returns every
\* hit with its stored vector when includeVectors is set and without a vector
\* when it is not.
C29_IncludeVectors ==
    Done("SearchByVector")
    => /\ Err.cause # "scan"
       /\ Err = Nil
          => \A k \in DOMAIN Results :
                Results[k].document.vector =
                   IF call[Caller].used.includeVectors
                   THEN tables[tableName(call[Caller].name)].rows[Results[k].document.id].vector
                   ELSE <<>>

\* the distances of pgvector's operators, in units of 1/Scale: <-> for
\* euclidean, <#> (the negative inner product) for dot_product, <=> for
\* cosine and every other distance type
InnerProduct(a, b) ==
    LET RECURSIVE Sum(_)
        Sum(i) == IF i = 0 THEN 0 ELSE a[i] * b[i] + Sum(i - 1)
    IN Sum(Len(a))
CosineDistance(a, b) ==
    LET na == InnerProduct(a, a)
        nb == InnerProduct(b, b)
    IN IF na * nb = 0 THEN -1
       ELSE LET n2 == na * nb * Scale * Scale
                n == CHOOSE r \in 0..(n2 + 1) : r * r <= n2 /\ (r + 1) * (r + 1) > n2
            IN Scale - (InnerProduct(a, b) * Scale * Scale) \div n
MetricDistance(distanceType, a, b) ==
    CASE distanceType = "euclidean" -> Distance(a, b)
      [] distanceType = "dot_product" -> 0 - InnerProduct(a, b) * Scale
      [] OTHER -> CosineDistance(a, b)

\* C30: the distance of every hit of SearchByVector is the distance under
\* the collection's stored distance type, the metric its index was built for.
C30_DistanceOfStoredType ==
    (Done("SearchByVector") /\ Err = Nil)
    => \A k \in DOMAIN Results :
          Results[k].distance =
             MetricDistance(meta[call[Caller].name].distanceType,
                            tables[tableName(call[Caller].name)].rows[Results[k].document.id].vector,
                            call[Caller].vector)

\* C28: ValidateDocument leaves a document it accepts with both timestamps
\* set, a zero one replaced by the time of the call and a non-zero one kept,
\* and every other field as it was; a document it refuses is left as it was.
C28_ValidateDocumentStampsOnSuccessOnly ==
    Done("ValidateDocument")
    => LET doc == call[Caller].doc
           left == Results[1]
       IN IF Err # Nil THEN left = doc
          ELSE /\ left.createdAt = (IF doc.createdAt = ZeroTime THEN left.createdAt
                                                              ELSE doc.createdAt)
               /\ left.updatedAt = (IF doc.updatedAt = ZeroTime THEN left.updatedAt
                                                              ELSE doc.updatedAt)
               /\ left.createdAt \in (1..clock) /\ left.updatedAt \in (1..clock)
               /\ [left EXCEPT !.createdAt = ZeroTime, !.updatedAt = ZeroTime]
                     = [doc EXCEPT !.createdAt = ZeroTime, !.updatedAt = ZeroTime]

(***************************************************************************)
(* A writer upserting into one collection while an administrator deletes   *)
(* the collection and creates it again with another dimension, in every    *)
(* interleaving of their statements.  The administrator's CREATE TABLE     *)
(* never waits here: the writer's transactions write only to a table that  *)
(* is committed.                                                           *)
(***************************************************************************)
Writer == Caller
Administrator == CHOOSE p \in Procs : p # Writer
RaceConfigs ==
    { VectorCollectionConfig(NameDocs, 1, "hnsw", "cosine", NoFields),
      VectorCollectionConfig(NameDocs, MaxDimension, "ivf_flat", "euclidean", NoFields) }

\* one document for each of the two dimensions
RaceDocuments ==
    { VectorDocument("d1", <<1>>, "x", NoMetadata, ZeroTime, ZeroTime),
      VectorDocument("d2", [i \in 1..MaxDimension |-> 0], "y", NoMetadata, 1, 1) }

NextRace ==
    \/ \E p \in Procs : Returned(p)
    \/ \E config \in RaceConfigs : CreateCollection(Administrator, config)
    \/ createCollectionTable(Administrator)
    \/ createCollectionIndex(Administrator)
    \/ storeCollectionMetadata(Administrator)
    \/ CreateCollectionCommit(Administrator)
    \/ DeleteCollection(Administrator, NameDocs)
    \/ DeleteCollectionDrop(Administrator)
    \/ deleteCollectionMetadata(Administrator)
    \/ DeleteCollectionCommit(Administrator)
    \/ \E doc \in RaceDocuments : UpsertDocument(Writer, NameDocs, doc)
    \/ UpsertDocumentExec(Writer)
    \/ \E docs \in SeqsUpTo(RaceDocuments, MaxBatch) : UpsertDocuments(Writer, NameDocs, docs)
    \/ UpsertDocumentsBegin(Writer)
    \/ prepareBulkInsertStmt(Writer)
    \/ UpsertDocumentsExec(Writer)
    \/ UpsertDocumentsCommit(Writer)

SpecRace == Init /\ [][NextRace]_vars

\* C27: in every interleaving of UpsertDocument and UpsertDocuments with a
\* DeleteCollection followed by a CreateCollection of the same name with
\* another dimension, every stored document has a vector as long as the
\* dimension of the collection that exists, in the committed data and in
\* what each open transaction sees.
C27_NoStaleDimensionStored ==
    LET t == tableName(NameDocs)
    IN /\ Registered(NameDocs)
          => \A d \in StoredDocs(NameDocs) : Len(d.vector) = meta[NameDocs].dimension
       /\ \A p \in Procs :
             (ViewMeta(p, NameDocs).exists /\ ViewTable(p, t).exists)
             => \A i \in DocIDs :
                   ViewTable(p, t).rows[i].exists
                   => Len(ViewTable(p, t).rows[i].vector) = ViewMeta(p, NameDocs).dimension

\* C27 witness: the writer validated its document against a configuration
\* that was deleted and replaced by one of another dimension before its
\* INSERT ran; the INSERT was refused and the new collection holds nothing
\* of the old length.
C27_Witness ==
    /\ pc[Writer] = "returned"
    /\ call[Writer].op \in {"UpsertDocument", "UpsertDocuments"}
    /\ "config" \in DOMAIN call[Writer]
    /\ Registered(NameDocs)
    /\ call[Writer].config.dimension # meta[NameDocs].dimension
    /\ result[Writer].err = VectorError(ErrCodeOperationFailed, "22000")

(***************************************************************************)
(* Construction, Initialize and ListCollections (chunking.go 166-235,      *)
(* 295-322, 551-593), on a server that may lack the vector extension and   *)
(* has no metadata table yet.                                              *)
(***************************************************************************)
ErrCodeConnectionFailed == 500

\* PostgresStorageConfig: the schema name and whether sql.Open takes the
\* connection string
PostgresStorageConfigs ==
    [schemaName : {""} \cup Schemas, wellFormed : BOOLEAN]

\* The statements a call issued, in order.
Issue(p, statement) == [call[p] EXCEPT !.issued = Append(@, statement)]

\* The extension is not looked for.
NewPostgresProvider_NoExtensionCheck(p, config) ==
    LET schema == IF config.schemaName = "" THEN DefaultSchema ELSE config.schemaName
        c == [op |-> "NewPostgresProvider", schema |-> schema, issued |-> <<>>,
              installed |-> server.extension]
    IN /\ pc[p] = "idle"
       /\ ~provider.exists
       /\ UNCHANGED <<meta, tables, tx, clock, server, provider, storage>>
       /\ call' = [call EXCEPT ![p] = c]
       /\ IF ~config.wellFormed
          THEN Return(p, VectorError(ErrCodeConnectionFailed, "conn"), <<>>)
          ELSE /\ pc' = [pc EXCEPT ![p] = "newSchema"]
               /\ UNCHANGED result
       /\ Track(p, TRUE)

\* NewPostgresProvider: the default schema name, sql.Open, and the first
\* statement of initializePostgres, SELECT EXISTS(... pg_extension ...).
NewPostgresProvider(p, config) ==
    LET schema == IF config.schemaName = "" THEN DefaultSchema ELSE config.schemaName
        c == [op |-> "NewPostgresProvider", schema |-> schema, issued |-> <<>>,
              installed |-> server.extension]
        asked == [c EXCEPT !.issued = <<"SELECT pg_extension">>]
    IN /\ pc[p] = "idle"
       /\ ~provider.exists
       /\ UNCHANGED <<meta, tables, tx, clock, server, provider, storage>>
       /\ IF ~config.wellFormed
          THEN /\ call' = [call EXCEPT ![p] = c]
               /\ Return(p, VectorError(ErrCodeConnectionFailed, "conn"), <<>>)
          ELSE /\ call' = [call EXCEPT ![p] = asked]
               /\ \/ Return(p, VectorError(ErrCodeInvalidConfig, "conn"), <<>>)
                  \/ IF ~server.extension
                     THEN Return(p, VectorError(ErrCodeInvalidConfig, "none"), <<>>)
                     ELSE /\ pc' = [pc EXCEPT ![p] = "newSchema"]
                          /\ UNCHANGED result
       /\ Track(p, TRUE)

\* CREATE SCHEMA IF NOT EXISTS schema
initializePostgresSchema(p) ==
    /\ pc[p] = "newSchema"
    /\ UNCHANGED <<meta, tables, tx, clock, provider, storage>>
    /\ call' = [call EXCEPT ![p] = Issue(p, "CREATE SCHEMA")]
    /\ \/ /\ Return(p, VectorError(ErrCodeOperationFailed, "conn"), <<>>)
          /\ UNCHANGED server
       \/ /\ server' = [server EXCEPT !.schemas = @ \cup {call[p].schema}]
          /\ pc' = [pc EXCEPT ![p] = "newTable"]
          /\ UNCHANGED result
    /\ Track(p, FALSE)

\* CREATE TABLE IF NOT EXISTS schema.vector_collections, and the provider
\* that is returned
initializePostgresTable(p) ==
    /\ pc[p] = "newTable"
    /\ UNCHANGED <<meta, tables, tx, clock, storage>>
    /\ call' = [call EXCEPT ![p] = Issue(p, "CREATE TABLE")]
    /\ \/ /\ Return(p, VectorError(ErrCodeOperationFailed, "conn"), <<>>)
          /\ UNCHANGED <<server, provider>>
       \/ /\ server' = [server EXCEPT !.catalogs = @ \cup {call[p].schema}]
          /\ provider' = PostgresProvider(call[p].schema)
          /\ Return(p, Nil, <<>>)
    /\ Track(p, FALSE)

\* Initialize: CREATE EXTENSION IF NOT EXISTS vector.  before is the server
\* and the data as the call found them.
Initialize(p) ==
    /\ pc[p] = "idle"
    /\ provider.exists
    /\ UNCHANGED <<meta, tables, tx, clock, provider, storage>>
    /\ call' = [call EXCEPT ![p] =
                   [op |-> "Initialize", schema |-> provider.schema,
                    issued |-> <<"CREATE EXTENSION">>,
                    before |-> [server |-> server, meta |-> meta, tables |-> tables]]]
    /\ \/ /\ Return(p, VectorError(ErrCodeOperationFailed, "conn"), <<>>)
          /\ UNCHANGED server
       \/ /\ server' = [server EXCEPT !.extension = TRUE]
          /\ pc' = [pc EXCEPT ![p] = "initSchema"]
          /\ UNCHANGED result
    /\ Track(p, TRUE)

\* CREATE SCHEMA IF NOT EXISTS schema
InitializeSchema(p) ==
    /\ pc[p] = "initSchema"
    /\ UNCHANGED <<meta, tables, tx, clock, provider, storage>>
    /\ call' = [call EXCEPT ![p] = Issue(p, "CREATE SCHEMA")]
    /\ \/ /\ Return(p, VectorError(ErrCodeOperationFailed, "conn"), <<>>)
          /\ UNCHANGED server
       \/ /\ server' = [server EXCEPT !.schemas = @ \cup {call[p].schema}]
          /\ pc' = [pc EXCEPT ![p] = "initTable"]
          /\ UNCHANGED result
    /\ Track(p, FALSE)

\* The metadata table made anew: its rows are lost.
InitializeTable_Recreates(p) ==
    /\ pc[p] = "initTable"
    /\ UNCHANGED <<tables, tx, clock, storage>>
    /\ call' = [call EXCEPT ![p] = Issue(p, "CREATE TABLE")]
    /\ server' = [server EXCEPT !.catalogs = @ \cup {call[p].schema}]
    /\ provider' = [provider EXCEPT !.initialized = IF @ = 0 THEN 1 ELSE 2]
    /\ meta' = [n \in Names |-> NoRow]
    /\ pc' = [pc EXCEPT ![p] = "returned"]
    /\ result' = [result EXCEPT ![p] = [err |-> Nil, out |-> <<>>]]
    /\ Track(p, FALSE)

\* CREATE TABLE IF NOT EXISTS schema.vector_collections
InitializeTable(p) ==
    /\ pc[p] = "initTable"
    /\ UNCHANGED <<meta, tables, tx, clock, storage>>
    /\ call' = [call EXCEPT ![p] = Issue(p, "CREATE TABLE")]
    /\ \/ /\ Return(p, VectorError(ErrCodeOperationFailed, "conn"), <<>>)
          /\ UNCHANGED <<server, provider>>
       \/ /\ server' = [server EXCEPT !.catalogs = @ \cup {call[p].schema}]
          /\ provider' = [provider EXCEPT !.initialized = IF @ = 0 THEN 1 ELSE 2]
          /\ Return(p, Nil, <<>>)
    /\ Track(p, FALSE)

\* ORDER BY name: the characters in code-point order, and the two orders a
\* database collation can give names that differ only in case ("C": upper
\* case first; a locale: lower case first).
CodePoints == <<"-", "1", "D", "_", "a", "b", "c", "d", "g", "l", "o", "s", "t">>
RECURSIVE Before(_, _)
Before(a, b) ==
    LET CodePoint(c) == CHOOSE i \in DOMAIN CodePoints : CodePoints[i] = c
    IN IF Len(a) = 0 THEN Len(b) > 0
       ELSE IF Len(b) = 0 THEN FALSE
       ELSE IF Head(a) # Head(b) THEN CodePoint(Head(a)) < CodePoint(Head(b))
       ELSE Before(Tail(a), Tail(b))
OrderByName(names) ==
    LET Collates(collation, a, b) ==
           IF collation = "C" THEN Before(a, b)
           ELSE IF tableName(a) # tableName(b) THEN Before(tableName(a), tableName(b))
           ELSE Before(b, a)
    IN { s \in [1..Cardinality(names) -> names] :
            \E collation \in {"C", "locale"} :
               \A i, j \in DOMAIN s : i < j => Collates(collation, s[i], s[j]) }

\* ListCollections: SELECT name FROM vector_collections WHERE schema_name = $1
\* ORDER BY name.  The table is named without its schema, so the server
\* reads the one on the search path, public.vector_collections, whatever the
\* provider's schema; this provider writes its rows to the table of its own
\* schema.
ListCollections(p) ==
    /\ pc[p] = "idle"
    /\ provider.exists
    /\ UNCHANGED <<meta, tables, tx, clock, server, provider, storage>>
    /\ call' = [call EXCEPT ![p] = [op |-> "ListCollections", schema |-> provider.schema]]
    /\ \/ Return(p, VectorError(ErrCodeOperationFailed, "conn"), <<>>)
       \/ IF DefaultSchema \notin server.catalogs
          THEN Return(p, VectorError(ErrCodeOperationFailed, "42P01"), <<>>)
          ELSE LET rows == IF provider.schema = DefaultSchema
                           THEN {n \in Names : meta[n].exists} ELSE {}
               IN \E s \in OrderByName(rows) :
                     \/ Return(p, Nil, s)
                     \/ \E k \in 0..Len(s) : Return(p, PlainError("conn"), SubSeq(s, 1, k))
    /\ Track(p, TRUE)

\* The server before any provider was made: with or without the extension,
\* with or without a metadata table in the default schema.
InitSetup ==
    /\ meta = [n \in Names |-> NoRow]
    /\ tables = [t \in Idents |-> NoTable]
    /\ tx = [p \in Procs |-> NoTx]
    /\ pc = [p \in Procs |-> "idle"]
    /\ call = [p \in Procs |-> [op |-> "none"]]
    /\ result = [p \in Procs |-> [err |-> Nil, out |-> <<>>]]
    /\ changed = [p \in Procs |-> FALSE]
    /\ clock = 1
    /\ server \in [extension : BOOLEAN, schemas : {{DefaultSchema}},
                   catalogs : {{}, {DefaultSchema}}]
    /\ provider = NoProvider
    /\ storage = NoStorage

NextSetup ==
    \/ Returned(Caller)
    \/ \E config \in PostgresStorageConfigs : NewPostgresProvider(Caller, config)
    \/ initializePostgresSchema(Caller)
    \/ initializePostgresTable(Caller)
    \/ Initialize(Caller)
    \/ InitializeSchema(Caller)
    \/ InitializeTable(Caller)
    \/ ListCollections(Caller)
    \/ \E config \in ConcurrentConfigs : provider.exists /\ CreateCollection(Caller, config)
    \/ createCollectionTable(Caller)
    \/ createCollectionIndex(Caller)
    \/ storeCollectionMetadata(Caller)
    \/ CreateCollectionCommit(Caller)
    \/ \E name \in {NameDocs, NameDocsUpper} : provider.exists /\ DeleteCollection(Caller, name)
    \/ DeleteCollectionDrop(Caller)
    \/ deleteCollectionMetadata(Caller)
    \/ DeleteCollectionCommit(Caller)
    \/ \E doc \in RaceDocuments : provider.exists /\ UpsertDocument(Caller, NameDocs, doc)
    \/ UpsertDocumentExec(Caller)

SpecSetup == InitSetup /\ [][NextSetup]_vars

\* C26: construction asks for the vector extension before anything else.
\* When it is not installed the call fails with InvalidConfig, no CREATE
\* SCHEMA or CREATE TABLE has been issued and no provider is returned; when
\* it is installed the schema is created, then the metadata table, and the
\* provider of that schema is returned.
C26_ExtensionCheckedFirst ==
    /\ (call[Caller].op = "NewPostgresProvider" /\ Len(call[Caller].issued) > 0)
       => call[Caller].issued[1] = "SELECT pg_extension"
    /\ (Done("NewPostgresProvider") /\ NoConnFault)
       => IF ~call[Caller].installed
          THEN /\ Err = VectorError(ErrCodeInvalidConfig, "none")
               /\ call[Caller].issued = <<"SELECT pg_extension">>
               /\ ~provider.exists
          ELSE /\ Err = Nil
               /\ call[Caller].issued = <<"SELECT pg_extension", "CREATE SCHEMA", "CREATE TABLE">>
               /\ provider = PostgresProvider(call[Caller].schema)
               /\ call[Caller].schema \in server.schemas \cap server.catalogs

\* C26 witness: a provider constructed for a schema that did not exist.
C26_Witness ==
    /\ Done("NewPostgresProvider")
    /\ Err = Nil
    /\ call[Caller].schema # DefaultSchema
    /\ provider.exists

\* C22: Initialize succeeds every time it is called (the connection
\* holding), leaves the server, the collections and the documents as it found
\* them, and returns OperationFailed when one of its statements fails.
C22_InitializeIdempotent ==
    call[Caller].op = "Initialize"
    => /\ server = call[Caller].before.server
       /\ meta = call[Caller].before.meta
       /\ tables = call[Caller].before.tables
       /\ pc[Caller] = "returned"
          => /\ NoConnFault => Err = Nil
             /\ Err # Nil => Err = VectorError(ErrCodeOperationFailed, "conn")

\* C22 witness: Initialize succeeding for at least the second time on a
\* provider that holds a collection with a document.
C22_Witness ==
    /\ Done("Initialize")
    /\ Err = Nil
    /\ provider.initialized = 2
    /\ Registered(NameDocs)
    /\ StoredDocs(NameDocs) # {}

\* C24: whatever the provider's schema, ListCollections returns the names
\* of the collections created through the provider and not deleted, each
\* once, in ascending order.
C24_ListCollections ==
    (Done("ListCollections") /\ NoConnFault)
    => /\ Err = Nil
       /\ Len(Results) = Cardinality({n \in Names : Registered(n)})
       /\ {Results[i] : i \in DOMAIN Results} = {n \in Names : Registered(n)}
       /\ Results \in OrderByName({n \in Names : Registered(n)})

(***************************************************************************)
(* The facade (vector_storage.go) over a provider that answers whatever    *)
(* it is set up to answer (MockVectorStorageProvider, part_006 14-81).     *)
(***************************************************************************)
MockVectorStorageProvider == [exists |-> TRUE, mock |-> TRUE]
FacadeNames == {NameDocs, NameHyphen}

\* what the provider can answer to a call: any error, with or without a value
MockReturns(method) ==
    LET errs == {Nil, ErrCollectionNotFound, PlainError("none")}
        outs == CASE method = "ListCollections" -> {<<>>, <<NameDocs>>}
                  [] method = "GetDocument" -> {<<>>} \cup {<<d>> : d \in RaceDocuments}
                  [] method \in {"SearchByVector", "SearchByID"} ->
                        {<<>>} \cup {<<[document |-> d, score |-> 0, distance |-> Scale]>> :
                                        d \in RaceDocuments}
                  [] OTHER -> {<<>>}
    IN [err : errs, out : outs]

\* The arguments not passed on.
ProviderCall_NoArguments(method, args) == [method |-> method, args |-> <<>>]

\* s.provider.Method(ctx, args...): the call the provider receives
ProviderCall(method, args) == [method |-> method, args |-> args]

\* A call of the facade: its method and arguments, the calls the provider
\* received during it, and what the provider answered.
FacadeCall(method, args, returned) ==
    [op |-> method, args |-> args, calls |-> <<ProviderCall(method, args)>>,
     returned |-> returned]

\* NewVectorStorage: provider.Initialize, and the facade when it succeeded
NewVectorStorage(p) ==
    /\ pc[p] = "idle"
    /\ ~storage.exists
    /\ UNCHANGED <<meta, tables, tx, clock, server, provider>>
    /\ \E r \in MockReturns("Initialize") :
          /\ call' = [call EXCEPT ![p] =
                         [FacadeCall("Initialize", <<>>, r) EXCEPT !.op = "NewVectorStorage"]]
          /\ Return(p, r.err, <<>>)
          /\ storage' = IF r.err # Nil THEN storage ELSE VectorStorage
    /\ Track(p, TRUE)

VectorStorage_CreateCollection(p, config) ==
    /\ pc[p] = "idle"
    /\ storage.exists
    /\ UNCHANGED <<meta, tables, tx, clock, server, provider, storage>>
    /\ \E r \in MockReturns("CreateCollection") :
          /\ call' = [call EXCEPT ![p] = FacadeCall("CreateCollection", <<config>>, r)]
          /\ Return(p, r.err, r.out)
    /\ Track(p, TRUE)

VectorStorage_DeleteCollection(p, name) ==
    /\ pc[p] = "idle"
    /\ storage.exists
    /\ UNCHANGED <<meta, tables, tx, clock, server, provider, storage>>
    /\ \E r \in MockReturns("DeleteCollection") :
          /\ call' = [call EXCEPT ![p] = FacadeCall("DeleteCollection", <<name>>, r)]
          /\ Return(p, r.err, r.out)
    /\ Track(p, TRUE)

VectorStorage_ListCollections(p) ==
    /\ pc[p] = "idle"
    /\ storage.exists
    /\ UNCHANGED <<meta, tables, tx, clock, server, provider, storage>>
    /\ \E r \in MockReturns("ListCollections") :
          /\ call' = [call EXCEPT ![p] = FacadeCall("ListCollections", <<>>, r)]
          /\ Return(p, r.err, r.out)
    /\ Track(p, TRUE)

VectorStorage_UpsertDocument(p, collection, doc) ==
    /\ pc[p] = "idle"
    /\ storage.exists
    /\ UNCHANGED <<meta, tables, tx, clock, server, provider, storage>>
    /\ \E r \in MockReturns("UpsertDocument") :
          /\ call' = [call EXCEPT ![p] = FacadeCall("UpsertDocument", <<collection, doc>>, r)]
          /\ Return(p, r.err, r.out)
    /\ Track(p, TRUE)

VectorStorage_UpsertDocuments(p, collection, docs) ==
    /\ pc[p] = "idle"
    /\ storage.exists
    /\ UNCHANGED <<meta, tables, tx, clock, server, provider, storage>>
    /\ \E r \in MockReturns("UpsertDocuments") :
          /\ call' = [call EXCEPT ![p] = FacadeCall("UpsertDocuments", <<collection, docs>>, r)]
          /\ Return(p, r.err, r.out)
    /\ Track(p, TRUE)

VectorStorage_GetDocument(p, collection, id) ==
    /\ pc[p] = "idle"
    /\ storage.exists
    /\ UNCHANGED <<meta, tables, tx, clock, server, provider, storage>>
    /\ \E r \in MockReturns("GetDocument") :
          /\ call' = [call EXCEPT ![p] = FacadeCall("GetDocument", <<collection, id>>, r)]
          /\ Return(p, r.err, r.out)
    /\ Track(p, TRUE)

VectorStorage_DeleteDocument(p, collection, id) ==
    /\ pc[p] = "idle"
    /\ storage.exists
    /\ UNCHANGED <<meta, tables, tx, clock, server, provider, storage>>
    /\ \E r \in MockReturns("DeleteDocument") :
          /\ call' = [call EXCEPT ![p] = FacadeCall("DeleteDocument", <<collection, id>>, r)]
          /\ Return(p, r.err, r.out)
    /\ Track(p, TRUE)

VectorStorage_SearchByVector(p, collection, vector, opts) ==
    /\ pc[p] = "idle"
    /\ storage.exists
    /\ UNCHANGED <<meta, tables, tx, clock, server, provider, storage>>
    /\ \E r \in MockReturns("SearchByVector") :
          /\ call' = [call EXCEPT ![p] = FacadeCall("SearchByVector", <<collection, vector, opts>>, r)]
          /\ Return(p, r.err, r.out)
    /\ Track(p, TRUE)

VectorStorage_SearchByID(p, collection, id, opts) ==
    /\ pc[p] = "idle"
    /\ storage.exists
    /\ UNCHANGED <<meta, tables, tx, clock, server, provider, storage>>
    /\ \E r \in MockReturns("SearchByID") :
          /\ call' = [call EXCEPT ![p] = FacadeCall("SearchByID", <<collection, id, opts>>, r)]
          /\ Return(p, r.err, r.out)
    /\ Track(p, TRUE)

VectorStorage_Close(p) ==
    /\ pc[p] = "idle"
    /\ storage.exists
    /\ UNCHANGED <<meta, tables, tx, clock, server, provider, storage>>
    /\ \E r \in MockReturns("Close") :
          /\ call' = [call EXCEPT ![p] = FacadeCall("Close", <<>>, r)]
          /\ Return(p, r.err, r.out)
    /\ Track(p, TRUE)

InitFacade ==
    /\ meta = [n \in Names |-> NoRow]
    /\ tables = [t \in Idents |-> NoTable]
    /\ tx = [p \in Procs |-> NoTx]
    /\ pc = [p \in Procs |-> "idle"]
    /\ call = [p \in Procs |-> [op |-> "none"]]
    /\ result = [p \in Procs |-> [err |-> Nil, out |-> <<>>]]
    /\ changed = [p \in Procs |-> FALSE]
    /\ clock = 1
    /\ server = [extension |-> TRUE, schemas |-> {DefaultSchema}, catalogs |-> {DefaultSchema}]
    /\ provider = MockVectorStorageProvider
    /\ storage = NoStorage

NextFacade ==
    \/ Returned(Caller)
    \/ NewVectorStorage(Caller)
    \/ \E config \in {NilConfig} \cup RaceConfigs :
          VectorStorage_CreateCollection(Caller, config)
    \/ \E name \in FacadeNames :
          VectorStorage_DeleteCollection(Caller, name)
    \/ VectorStorage_ListCollections(Caller)
    \/ \E collection \in FacadeNames, doc \in {NilDoc} \cup RaceDocuments :
          VectorStorage_UpsertDocument(Caller, collection, doc)
    \/ \E collection \in FacadeNames, docs \in SeqsUpTo(RaceDocuments, MaxBatch) :
          VectorStorage_UpsertDocuments(Caller, collection, docs)
    \/ \E collection \in FacadeNames, id \in DocIDs :
          VectorStorage_GetDocument(Caller, collection, id)
    \/ \E collection \in FacadeNames, id \in DocIDs :
          VectorStorage_DeleteDocument(Caller, collection, id)
    \/ \E collection \in FacadeNames, vector \in QueryVectors, opts \in {NilOptions, DefaultOptions} :
          VectorStorage_SearchByVector(Caller, collection, vector, opts)
    \/ \E collection \in FacadeNames, id \in DocIDs, opts \in {NilOptions, DefaultOptions} :
          VectorStorage_SearchByID(Caller, collection, id, opts)
    \/ VectorStorage_Close(Caller)

SpecFacade == InitFacade /\ [][NextFacade]_vars

\* C21: NewVectorStorage calls the provider's Initialize once and returns a
\* facade exactly when that succeeds, returning the provider's error as it is
\* otherwise; every method of the facade makes one call, to the provider's
\* method of the same name with the same arguments, and returns the value and
\* the error the provider gave.
C21_FacadeForwards ==
    /\ pc[Caller] = "returned"
       => /\ call[Caller].calls =
                <<[method |-> IF call[Caller].op = "NewVectorStorage" THEN "Initialize"
                              ELSE call[Caller].op,
                   args |-> call[Caller].args]>>
          /\ Err = call[Caller].returned.err
          /\ call[Caller].op # "NewVectorStorage" => Results = call[Caller].returned.out
    /\ Done("NewVectorStorage") => (storage.exists <=> Err = Nil)
    /\ (pc[Caller] = "returned" /\ call[Caller].op # "NewVectorStorage") => storage.exists

\* C21 witness: SearchByVector through the facade, answered by the provider
\* with a result and an error at once, both handed back.
C21_Witness ==
    /\ Done("SearchByVector")
    /\ call[Caller].args = <<NameHyphen, <<0, 0>>, NilOptions>>
    /\ call[Caller].returned.err = ErrCollectionNotFound
    /\ Len(call[Caller].returned.out) = 1
    /\ Err = ErrCollectionNotFound
    /\ Len(Results) = 1

====
